---- MODULE Spec2Model ----
(***************************************************************************)
(* A model of the per-device reconciliation engine of                      *)
(* timeline-state-resolver: the HTTP-send device, the Quantel              *)
(* (video-server) device and the CasparCG device, their differs, and the   *)
(* timed queue and state store they are built on.                          *)
(***************************************************************************)
EXTENDS Integers, Sequences, FiniteSets, Bags, TLC

VARIABLES
    dev,           \* which device the engine instance is: "http", "quantel" or "casparcg"
    initialized,   \* QuantelGateway.initialized; CasparCGState.isInitialised
    now,           \* getCurrentTime()
    queue,         \* DoOnTime: the queued entries, in enqueue order
    running,       \* DoOnTime: the bag of callbacks started and not yet settled
    states,        \* DeviceWithState: the stored (time, state) entries
    activeLayers,  \* HTTPSendDevice.activeLayers
    nOps,          \* history: the number of facade operations called so far
    lastOp,        \* history: the facade operation that returned last
    din,           \* differ harness: the inputs drawn
    dout,          \* differ harness: the outputs computed
    qm,            \* QuantelManager: _quantelState and the keys of _cache
    cmdRun,           \* history: the command the QuantelManager ran last
    http,          \* HTTPSendDevice: _resendTime and a command in _defaultCommandReceiver
    ccg,           \* CasparCGDevice: _useScheduling, _queue, _connected, and the CasparCG connection
    gatewayConnected, \* QuantelGateway.connected
    cacheObj,      \* Cache: data and callCount, and the callers of getSet
    sync,          \* CasparCGDevice.makeReady: the position of the time sync
    sender         \* HTTPSendDevice: its options, the calls of the command
                   \* receiver that have not ended, the position of makeReady

vars == <<dev, initialized, now, queue, running, states, activeLayers,
          nOps, lastOp, din, dout, qm, cmdRun, http, ccg, gatewayConnected,
          cacheObj, sync, sender>>
devVars == <<dev, initialized, now, queue, running, states, activeLayers,
             nOps, lastOp>>
diffVars == <<din, dout>>
connVars == <<ccg, gatewayConnected>>
miscVars == <<cacheObj, sync, sender>>
execVars == <<qm, cmdRun, http, connVars, miscVars>>

---------------------------------------------------------------------------
(* JavaScript values *)

\* An optional value (undefined / null, or a value): the empty or the one-element sequence.
None == <<>>
Some(x) == <<x>>
IsSome(o) == Len(o) > 0
\* `o || d`
OrElse(o, d) == IF IsSome(o) THEN o[1] ELSE d

\* A JavaScript object used as a dictionary: the sequence of its [key, val]
\* entries in insertion order, which is the order _.each iterates it in.
Has(obj, k) == \E i \in DOMAIN obj : obj[i].key = k
Lookup(obj, k) == obj[CHOOSE i \in DOMAIN obj : obj[i].key = k].val
Keys(obj) == {obj[i].key : i \in DOMAIN obj}
Entry(k, v) == [key |-> k, val |-> v]

---------------------------------------------------------------------------
(* HTTP-send device: the differ *)

\* Layer names in collation order; localeCompare orders them by position.
LayerNames == <<"L1", "L2", "L3">>
LayerRank(l) == CHOOSE i \in DOMAIN LayerNames : LayerNames[i] = l
localeCompare(a, b) == LayerRank(a) - LayerRank(b)

\* (a.content.temporalPriority || 0)
temporalPriorityOf(cmd) == OrElse(cmd.content.temporalPriority, 0)

HTTPCommand(name, obj, ctx, layerKey) ==
    [commandName |-> name, timelineObjId |-> obj.id, content |-> obj.content,
     context |-> ctx, layer |-> layerKey]

\* Variant of isEqual: the two objects are compared by reference, and the
\* objects of two states are never the same object.
isEqual_byReference(a, b) == FALSE

\* _.isEqual on two contents: deep equality
isEqual(a, b) == a = b

\* The first loop of _diffStates: added and changed layers, in the iteration
\* order of newState.layers.
HTTPAddedChanged(oldState, newState) ==
    LET F[i \in 0..Len(newState.layers)] ==
            IF i = 0 THEN <<>>
            ELSE LET layerKey == newState.layers[i].key
                     newLayer == newState.layers[i].val
                 IN  IF ~Has(oldState.layers, layerKey)
                     THEN Append(F[i - 1], HTTPCommand("added", newLayer,
                                    <<"added", newLayer.id>>, layerKey))
                     ELSE LET oldLayer == Lookup(oldState.layers, layerKey)
                          IN  IF ~isEqual(oldLayer.content, newLayer.content)
                              THEN Append(F[i - 1], HTTPCommand("changed", newLayer,
                                    <<"changed", newLayer.id, oldLayer.id>>, layerKey))
                              ELSE F[i - 1]
    IN  F[Len(newState.layers)]

\* Variant of HTTPRemoved: the second loop is left out.
HTTPRemoved_none(oldState, newState) == <<>>

\* The second loop of _diffStates: removed layers, in the iteration order of
\* oldState.layers.
HTTPRemoved(oldState, newState) ==
    LET F[i \in 0..Len(oldState.layers)] ==
            IF i = 0 THEN <<>>
            ELSE LET layerKey == oldState.layers[i].key
                     oldLayer == oldState.layers[i].val
                 IN  IF ~Has(newState.layers, layerKey)
                     THEN Append(F[i - 1], HTTPCommand("removed", oldLayer,
                                    <<"removed", oldLayer.id>>, layerKey))
                     ELSE F[i - 1]
    IN  F[Len(oldState.layers)]

CompareLayer(a, b) == localeCompare(a.layer, b.layer)
ComparePriority(a, b) == temporalPriorityOf(a) - temporalPriorityOf(b)

\* Array.prototype.sort is stable (Node >= 11): an element goes behind every
\* element that does not compare greater than it.
InsertAt(sorted, k, x) ==
    SubSeq(sorted, 1, k) \o <<x>> \o SubSeq(sorted, k + 1, Len(sorted))

\* commands.sort((a, b) => a.layer.localeCompare(b.layer))
SortByLayer(commands) ==
    LET F[i \in 0..Len(commands)] ==
            IF i = 0 THEN <<>>
            ELSE InsertAt(F[i - 1],
                          Cardinality({j \in DOMAIN F[i - 1] :
                                          CompareLayer(F[i - 1][j], commands[i]) <= 0}),
                          commands[i])
    IN  F[Len(commands)]

\* commands.sort((a, b) => (a.content.temporalPriority || 0) - (b.content.temporalPriority || 0))
SortByPriority(commands) ==
    LET F[i \in 0..Len(commands)] ==
            IF i = 0 THEN <<>>
            ELSE InsertAt(F[i - 1],
                          Cardinality({j \in DOMAIN F[i - 1] :
                                          ComparePriority(F[i - 1][j], commands[i]) <= 0}),
                          commands[i])
    IN  F[Len(commands)]

\* Variant of HTTPSortCommands: the sort by layer is left out.
HTTPSortCommands_priorityOnly(commands) == SortByPriority(commands)

\* The two sorts that end _diffStates.
HTTPSortCommands(commands) ==
    SortByPriority(SortByLayer(commands))

HTTPSend_diffStates(oldState, newState) ==
    HTTPSortCommands(HTTPAddedChanged(oldState, newState)
                     \o HTTPRemoved(oldState, newState))

\* convertStateToHttpSend: the timeline state is used as it is.
convertStateToHttpSend(state) == state

---------------------------------------------------------------------------
(* Quantel (video-server) device: the projector and the differ *)

IDEAL_PREPARE_TIME == 1000
PREPARE_TIME_WAIT == 50

Min(a, b) == IF a <= b THEN a ELSE b
Max(a, b) == IF a >= b THEN a ELSE b

\* obj[k] = v: the entry keeps its place when the key exists, else it is appended.
Put(obj, k, v) ==
    IF Has(obj, k)
    THEN [i \in DOMAIN obj |-> IF obj[i].key = k THEN Entry(k, v) ELSE obj[i]]
    ELSE Append(obj, Entry(k, v))

\* _.sortBy(_.uniq(list)) on channel numbers: ascending, without duplicates.
sortByUniq(list) ==
    LET S == {list[i] : i \in DOMAIN list}
        F[n \in 0..Cardinality(S)] ==
            IF n = 0 THEN <<>>
            ELSE Append(F[n - 1],
                        CHOOSE x \in S : Cardinality({y \in S : y < x}) = n - 1)
    IN  F[Cardinality(S)]

\* The condition both loops of convertStateToQuantel put on a mapping.
IsQuantelMapping(m) ==
    m.device = "QUANTEL" /\ IsSome(m.portId) /\ IsSome(m.channelId)

\* Variant of PortsFromMappings: a port is created only for a mapping that
\* sets a mode.
PortsFromMappings_withModeOnly(mappings) ==
    LET F[i \in 0..Len(mappings)] ==
            IF i = 0 THEN <<>>
            ELSE LET m == mappings[i].val
                     ports == F[i - 1]
                 IN  IF IsQuantelMapping(m) /\ IsSome(m.mode)
                     THEN LET portId == m.portId[1]
                              port == IF Has(ports, portId)
                                      THEN Lookup(ports, portId)
                                      ELSE [channels |-> <<>>, timelineObjId |-> "",
                                            mode |-> m.mode[1], clip |-> None]
                          IN  Put(ports, portId,
                                  [port EXCEPT !.channels =
                                      sortByUniq(port.channels \o <<m.channelId[1]>>)])
                     ELSE ports
    IN  F[Len(mappings)]

\* The first loop of convertStateToQuantel: the ports, from the mappings.
PortsFromMappings(mappings) ==
    LET F[i \in 0..Len(mappings)] ==
            IF i = 0 THEN <<>>
            ELSE LET m == mappings[i].val
                     ports == F[i - 1]
                 IN  IF IsQuantelMapping(m)
                     THEN LET portId == m.portId[1]
                              port == IF Has(ports, portId)
                                      THEN Lookup(ports, portId)
                                      ELSE [channels |-> <<>>, timelineObjId |-> "",
                                            mode |-> OrElse(m.mode, "QUALITY"),
                                            clip |-> None]
                          IN  Put(ports, portId,
                                  [port EXCEPT !.channels =
                                      sortByUniq(port.channels \o <<m.channelId[1]>>)])
                     ELSE ports
    IN  F[Len(mappings)]

\* The clip convertStateToQuantel builds from a timeline object.
ClipOf(layer) ==
    [title |-> layer.content.title[1],
     pauseTime |-> layer.content.pauseTime,
     playing |-> OrElse(layer.content.playing, TRUE),
     inPoint |-> layer.content.inPoint,
     length |-> layer.content.length,
     playTime |-> IF layer.content.noStarttime \/ layer.start = 0
                  THEN None ELSE Some(layer.start)]

\* convertStateToQuantel: [ok |-> TRUE, state |-> the Quantel state], or
\* [ok |-> FALSE] when it throws `Port "..." not found`.
convertStateToQuantel(timelineState, mappings) ==
    LET F[i \in 0..Len(timelineState.layers)] ==
            IF i = 0 THEN [ok |-> TRUE, port |-> PortsFromMappings(mappings)]
            ELSE LET layerName == timelineState.layers[i].key
                     layer == timelineState.layers[i].val
                     acc == F[i - 1]
                 IN  IF ~acc.ok THEN acc
                     ELSE IF Has(mappings, layerName)
                             /\ IsQuantelMapping(Lookup(mappings, layerName))
                     THEN LET portId == Lookup(mappings, layerName).portId[1]
                          IN  IF ~Has(acc.port, portId)
                              THEN [ok |-> FALSE, port |-> acc.port]
                              ELSE IF IsSome(layer.content.title)
                              THEN [ok |-> TRUE,
                                    port |-> Put(acc.port, portId,
                                        [Lookup(acc.port, portId) EXCEPT
                                            !.timelineObjId = layer.id,
                                            !.clip = Some(ClipOf(layer))])]
                              ELSE acc
                     ELSE acc
        res == F[Len(timelineState.layers)]
    IN  IF res.ok
        THEN [ok |-> TRUE, state |-> [time |-> timelineState.time, port |-> res.port]]
        ELSE [ok |-> FALSE]

\* The layers convertStateToQuantel passes over: those of which the mapping
\* is missing or is not a Quantel mapping.
SkippedLayers(timelineState, mappings) ==
    {timelineState.layers[i].key : i \in
        {j \in DOMAIN timelineState.layers :
            ~(Has(mappings, timelineState.layers[j].key)
              /\ IsQuantelMapping(Lookup(mappings, timelineState.layers[j].key)))}}

\* Variants of prepareTimeOf: without the clamp to the transition time, without
\* the wait after the old state, and without the old state altogether.
prepareTimeOf_noClamp(oldState, time) ==
    Max(time - IDEAL_PREPARE_TIME, oldState.time + PREPARE_TIME_WAIT)
prepareTimeOf_noWait(oldState, time) ==
    Min(time, Max(time - IDEAL_PREPARE_TIME, oldState.time))
prepareTimeOf_ignoreOld(oldState, time) ==
    Min(time, time - IDEAL_PREPARE_TIME)

\* The time of when to run "preparation" commands.
prepareTimeOf(oldState, time) ==
    Min(time, Max(time - IDEAL_PREPARE_TIME, oldState.time + PREPARE_TIME_WAIT))

\* `if (channel)`: the first channel of the port, when it is truthy.
ChannelIsTruthy(channels) == Len(channels) > 0 /\ channels[1] # 0

\* The commands the first loop of _diffStates emits for one port of newState.
QuantelPortCommands(oldState, portId, newPort, time) ==
    LET prepareTime == prepareTimeOf(oldState, time)
        hasOld == Has(oldState.port, portId)
        setup ==
            IF (~hasOld \/ ~isEqual(newPort.channels, Lookup(oldState.port, portId).channels))
               /\ ChannelIsTruthy(newPort.channels)
            THEN << [type |-> "setupPort", time |-> prepareTime, portId |-> portId,
                     timelineObjId |-> newPort.timelineObjId,
                     channel |-> newPort.channels[1]] >>
            ELSE <<>>
        clip ==
            IF ~hasOld \/ ~isEqual(newPort.clip, Lookup(oldState.port, portId).clip)
            THEN IF IsSome(newPort.clip)
                 THEN << [type |-> "loadClipFragments", time |-> prepareTime,
                          portId |-> portId, timelineObjId |-> newPort.timelineObjId,
                          clip |-> newPort.clip[1], timeOfPlay |-> time],
                         [type |-> IF newPort.clip[1].playing THEN "playClip" ELSE "pauseClip",
                          time |-> time, portId |-> portId,
                          timelineObjId |-> newPort.timelineObjId,
                          clip |-> newPort.clip[1], mode |-> newPort.mode] >>
                 ELSE << [type |-> "clearClip", time |-> time, portId |-> portId,
                          timelineObjId |-> newPort.timelineObjId] >>
            ELSE <<>>
    IN  setup \o clip

\* The second loop of _diffStates: the ports that were removed.
QuantelReleased(oldState, newState, time) ==
    LET F[i \in 0..Len(oldState.port)] ==
            IF i = 0 THEN <<>>
            ELSE IF ~Has(newState.port, oldState.port[i].key)
                 THEN Append(F[i - 1],
                        [type |-> "releasePort", time |-> prepareTimeOf(oldState, time),
                         portId |-> oldState.port[i].key,
                         timelineObjId |-> oldState.port[i].val.timelineObjId])
                 ELSE F[i - 1]
    IN  F[Len(oldState.port)]

Quantel_diffStates(oldState, newState, time) ==
    LET F[i \in 0..Len(newState.port)] ==
            IF i = 0 THEN <<>>
            ELSE F[i - 1] \o QuantelPortCommands(oldState, newState.port[i].key,
                                                 newState.port[i].val, time)
    IN  F[Len(newState.port)] \o QuantelReleased(oldState, newState, time)

---------------------------------------------------------------------------
(* The inputs the differs are exercised on *)

\* HTTPSendCommandContent
cA == [type |-> "POST", url |-> "http://x", params |-> "a",
       temporalPriority |-> None, queueId |-> Some("q1")]
cB == [type |-> "POST", url |-> "http://x", params |-> "b",
       temporalPriority |-> Some(2), queueId |-> None]
cC == [type |-> "PUT", url |-> "http://y", params |-> "c",
       temporalPriority |-> Some(1), queueId |-> Some("q1")]

\* Timeline objects of the HTTP device; o3 has the content of o1 under another id.
o1 == [id |-> "o1", content |-> cA]
o2 == [id |-> "o2", content |-> cB]
o3 == [id |-> "o3", content |-> cA]
o4 == [id |-> "o4", content |-> cC]

\* The orders a dictionary with the given keys can be iterated in.
Orders(keys) ==
    {p \in [1..Cardinality(keys) -> keys] : \A i, j \in DOMAIN p : i # j => p[i] # p[j]}
Reverse(s) == [i \in DOMAIN s |-> s[Len(s) + 1 - i]]

\* The dictionary that holds f[k][1] for the keys k of order with f[k] present.
DictOf(order, f) ==
    LET F[i \in 0..Len(order)] ==
            IF i = 0 THEN <<>>
            ELSE IF IsSome(f[order[i]])
                 THEN Append(F[i - 1], Entry(order[i], f[order[i]][1]))
                 ELSE F[i - 1]
    IN  F[Len(order)]

\* TimelineState of the HTTP device
HTimeline(layers, t) == [time |-> t, layers |-> layers, nextEvents |-> <<>>]

HttpDiffLayers == {"L1", "L2", "L3"}
HttpDiffChoices == {None, Some(o1), Some(o2), Some(o3)}
HttpDiffInputs ==
    {[kind |-> "http", time |-> 1000,
      old |-> HTimeline(DictOf(ord, f), 0),
      new |-> HTimeline(DictOf(ord, g), 1000),
      altOld |-> Some(HTimeline(DictOf(Reverse(ord), f), 0)),
      altNew |-> Some(HTimeline(DictOf(Reverse(ord), g), 1000))] :
        f \in [HttpDiffLayers -> HttpDiffChoices],
        g \in [HttpDiffLayers -> HttpDiffChoices],
        ord \in Orders(HttpDiffLayers)}

\* Timeline objects of the Quantel device (TimelineObjQuantelClip).
QContent(title, playing, noStart) ==
    [title |-> title, playing |-> playing, pauseTime |-> None, inPoint |-> None,
     length |-> None, noStarttime |-> noStart]
clipA == [id |-> "a", start |-> 1000, content |-> QContent(Some("A"), None, FALSE)]
clipAPaused == [id |-> "ap", start |-> 1000,
                content |-> QContent(Some("A"), Some(FALSE), FALSE)]
clipB == [id |-> "b", start |-> 3000, content |-> QContent(Some("B"), Some(TRUE), TRUE)]

\* MappingQuantel
QMapping(portId, channelId, mode) ==
    [device |-> "QUANTEL", portId |-> Some(portId), channelId |-> Some(channelId),
     mode |-> mode]

QLayers == <<"L1", "L2">>
QTimelineChoices ==
    {f \in [{"L1", "L2"} -> {None, Some(clipA), Some(clipAPaused), Some(clipB)}] :
        f["L1"] # Some(clipB) /\ f["L2"] \in {None, Some(clipB)}}
QMappingChoices ==
    {m \in [{"L1", "L2"} -> {None, Some(QMapping("P1", 1, None)),
                             Some(QMapping("P1", 2, None)),
                             Some(QMapping("P2", 0, Some("SPEED")))}] :
        m["L1"] # Some(QMapping("P2", 0, Some("SPEED")))
        /\ m["L2"] # Some(QMapping("P1", 1, None))}

QTimeline(f, t) == [time |-> t, layers |-> DictOf(QLayers, f)]
QMappings(m) == DictOf(QLayers, m)

\* The state handleState falls back to when the store holds none.
QuantelEmptyState == [time |-> 0, port |-> <<>>]
HTTPEmptyState == [time |-> 0, layers |-> <<>>, nextEvents |-> <<>>]

\* (time of the old state, transition time)
QDiffTimes == {<<1000, 1040>>, <<1000, 1500>>, <<1000, 3000>>, <<3000, 1000>>}
QDiffFreshTimes == {1000, 1050, 3000, 10000}

QDiffInputs ==
    {[kind |-> "quantel", time |-> tt[2],
      old |-> convertStateToQuantel(QTimeline(f, tt[1]), QMappings(m)).state,
      new |-> convertStateToQuantel(QTimeline(g, tt[2]), QMappings(n)).state,
      altOld |-> None, altNew |-> None] :
        f \in QTimelineChoices, m \in QMappingChoices,
        g \in QTimelineChoices, n \in QMappingChoices, tt \in QDiffTimes}
    \cup
    {[kind |-> "quantel", time |-> t,
      old |-> QuantelEmptyState,
      new |-> convertStateToQuantel(QTimeline(g, t), QMappings(n)).state,
      altOld |-> None, altNew |-> None] :
        g \in QTimelineChoices, n \in QMappingChoices, t \in QDiffFreshTimes}

---------------------------------------------------------------------------
(* DoOnTime, the timed queue. An entry is [time, key, cmd]; key is the      *)
(* optional queueKey.                                                      *)

QueueEntry(time, key, cmd) == [time |-> time, key |-> key, cmd |-> cmd]

\* queue(time, queueKey, callback, payload)
DoOnTimeQueue(q, time, key, cmd) == Append(q, QueueEntry(time, key, cmd))

\* clearQueueAfter(t) removes the entries with fireTime > t
clearQueueAfter(q, t) == LET Keep(e) == e.time <= t IN SelectSeq(q, Keep)

\* clearQueueNowAndAfter(t) removes the entries with fireTime >= t
clearQueueNowAndAfter(q, t) == LET Keep(e) == e.time < t IN SelectSeq(q, Keep)

\* Whether the ticker may start the callback of entry i of q now.
\* IN_ORDER: the entry is due, no callback of its key is unsettled, and it is the
\* earliest entry of its key (the first enqueued of them at equal times); an
\* entry without a key waits for nothing.
\* BURST: the entry is due and the earliest enqueued of the due entries.
CanStart(mode, q, run, time, i) ==
    /\ q[i].time <= time
    /\ IF mode = "IN_ORDER"
       THEN IsSome(q[i].key) =>
               /\ \A r \in BagToSet(run) : r.key # q[i].key
               /\ \A j \in DOMAIN q :
                     (j # i /\ q[j].key = q[i].key) =>
                        (q[i].time < q[j].time \/ (q[i].time = q[j].time /\ i < j))
       ELSE \A j \in DOMAIN q : (j < i) => q[j].time > time

RemoveAt(s, i) == SubSeq(s, 1, i - 1) \o SubSeq(s, i + 1, Len(s))

---------------------------------------------------------------------------
(* DeviceWithState, the state store: a set of [time, state] entries with   *)
(* distinct times.                                                         *)

\* The entry with the greatest time strictly less than t, or None.
getStateBefore(st, t) ==
    LET before == {e \in st : e.time < t}
    IN  IF before = {} THEN None
        ELSE Some(CHOOSE e \in before : \A f \in before : f.time <= e.time)

\* setState(s, t) inserts, overwriting any entry at exactly t.
setState(st, s, t) == {e \in st : e.time # t} \cup {[time |-> t, state |-> s]}

\* cleanUpStates(minAge, upTo) discards the entries older than upTo - minAge,
\* leaving the latest entry strictly earlier.
cleanUpStates(st, minAge, upTo) ==
    {e \in st : e.time >= upTo - minAge}
    \cup {e \in st : IsSome(getStateBefore(st, upTo - minAge))
                     /\ e = getStateBefore(st, upTo - minAge)[1]}

clearStates(st) == {}

---------------------------------------------------------------------------
(* Bounds and inputs of the device state machine *)

MaxOps == 2

SnapTimes == {1000, 1040, 3000}
NowTimes == {0, 1020, 3500}

LayersOf(l1, l2) == DictOf(QLayers, [l \in {"L1", "L2"} |-> IF l = "L1" THEN l1 ELSE l2])

\* The layers of the snapshots given to the HTTP device.
HttpSnapshots ==
    {LayersOf(Some(o1), None), LayersOf(Some(o3), None), LayersOf(Some(o4), Some(o2))}

\* The (layers, mappings) of the snapshots given to the Quantel device.
QuantelSnapshots ==
    {<<LayersOf(Some(clipA), None), LayersOf(Some(QMapping("P1", 1, None)), None)>>,
     <<LayersOf(Some(clipAPaused), None), LayersOf(Some(QMapping("P1", 1, None)), None)>>,
     <<LayersOf(None, None), LayersOf(Some(QMapping("P1", 1, None)), None)>>,
     <<LayersOf(None, Some(clipB)), LayersOf(None, Some(QMapping("P2", 2, Some("SPEED"))))>>}

\* The same, and a snapshot with an object on a layer that has no mapping.
QuantelSnapshotsUnmapped ==
    QuantelSnapshots
    \cup {<<LayersOf(Some(clipA), Some(clipB)), LayersOf(Some(QMapping("P1", 1, None)), None)>>}

\* The connection options init is given: the names of the options present.
QuantelOptionSets ==
    {{"gatewayUrl", "ISAUrl", "zoneId", "serverId"}, {"gatewayUrl", "ISAUrl", "serverId"},
     {"ISAUrl", "zoneId", "serverId"}, {"gatewayUrl", "zoneId", "serverId"},
     {"gatewayUrl", "ISAUrl", "zoneId"}}

---------------------------------------------------------------------------
(* History of the facade operations *)

\* op, its time argument, the number of queue entries it removed and added
OpRec(op, t, removed, added) ==
    [op |-> op, t |-> t, removed |-> removed, added |-> added]
NoOp == OpRec("none", 0, 0, 0)

\* The model follows MaxOps facade operations.
CanCall == nOps < MaxOps

Record(op) ==
    /\ nOps' = nOps + 1
    /\ lastOp' = op

\* A queue or callback step ends the moment "just after the operation returned".
Stale == /\ lastOp' = NoOp
         /\ UNCHANGED nOps

---------------------------------------------------------------------------
(* HTTP-send device *)

\* Variant of HTTPSendMode: the queue is built with SendMode.BURST.
HTTPSendMode_Burst == "BURST"

\* new DoOnTime(..., SendMode.IN_ORDER, ...)
HTTPSendMode == "IN_ORDER"

\* JSON.stringify(cmd.content): the defined properties, in order, as text.
Stringify(content) ==
    << <<"type", content.type>>, <<"url", content.url>>, <<"params", content.params>> >>
    \o (IF IsSome(content.temporalPriority)
        THEN << <<"temporalPriority", ToString(content.temporalPriority[1])>> >> ELSE <<>>)
    \o (IF IsSome(content.queueId) THEN << <<"queueId", content.queueId[1]>> >> ELSE <<>>)

HTTPPreviousStateTime(time, newState) == Max(time, newState.time)

\* Variant of HTTPOldState: the store is not read.
HTTPOldState_alwaysEmpty(st, previousStateTime) == HTTPEmptyState

HTTPOldState(st, previousStateTime) ==
    IF IsSome(getStateBefore(st, previousStateTime))
    THEN getStateBefore(st, previousStateTime)[1].state
    ELSE HTTPEmptyState

\* _addToQueue(commandsToAchieveState, time)
HTTPAddToQueue(q, commands, time) ==
    LET F[i \in 0..Len(commands)] ==
            IF i = 0 THEN q
            ELSE DoOnTimeQueue(F[i - 1], time, commands[i].content.queueId, commands[i])
    IN  F[Len(commands)]

\* Variant of HTTPPrepareQueue: clearQueueAfter in place of clearQueueNowAndAfter.
HTTPPrepareQueue_clearAfter(q, newStateTime) == clearQueueAfter(q, newStateTime)

\* prepareForHandleState: what it does to the queue and to the store.
HTTPPrepareQueue(q, newStateTime) == clearQueueNowAndAfter(q, newStateTime)
HTTPPrepareStates(st, newStateTime) == cleanUpStates(st, 0, newStateTime)

HTTPprepareForHandleState(newStateTime) ==
    /\ dev = "http"
    /\ CanCall
    /\ queue' = HTTPPrepareQueue(queue, newStateTime)
    /\ states' = HTTPPrepareStates(states, newStateTime)
    /\ Record(OpRec("prepareForHandleState", newStateTime,
                    Len(queue) - Len(HTTPPrepareQueue(queue, newStateTime)), 0))
    /\ UNCHANGED <<dev, initialized, now, running, activeLayers, diffVars, execVars>>

\* handleState, from the diff to the queue: the commands that achieve the new
\* state replace what was queued from previousStateTime on.
HTTPQueueAfterHandleState(q, oldState, newState, previousStateTime) ==
    HTTPAddToQueue(clearQueueNowAndAfter(q, previousStateTime),
                   HTTPSend_diffStates(oldState, convertStateToHttpSend(newState)),
                   newState.time)

HTTPhandleState(newState) ==
    LET previousStateTime == HTTPPreviousStateTime(now, newState)
        oldState == HTTPOldState(states, previousStateTime)
        commands == HTTPSend_diffStates(oldState, convertStateToHttpSend(newState))
    IN  /\ dev = "http"
        /\ CanCall
        /\ queue' = HTTPQueueAfterHandleState(queue, oldState, newState, previousStateTime)
        /\ states' = setState(states, newState, newState.time)
        /\ Record(OpRec("handleState", newState.time,
                        Len(queue) - Len(clearQueueNowAndAfter(queue, previousStateTime)),
                        Len(commands)))
        /\ UNCHANGED <<dev, initialized, now, running, activeLayers, diffVars, execVars>>

HTTPclearFuture(clearAfterTime) ==
    /\ dev = "http"
    /\ CanCall
    /\ queue' = clearQueueAfter(queue, clearAfterTime)
    /\ Record(OpRec("clearFuture", clearAfterTime,
                    Len(queue) - Len(clearQueueAfter(queue, clearAfterTime)), 0))
    /\ UNCHANGED <<dev, initialized, now, running, states, activeLayers, diffVars, execVars>>

\* The queued callback of an 'added' or 'changed' command.
HTTPFireSend(i) ==
    /\ dev = "http"
    /\ CanStart(HTTPSendMode, queue, running, now, i)
    /\ queue[i].cmd.commandName \in {"added", "changed"}
    /\ activeLayers' = {e \in activeLayers : e.key # queue[i].cmd.layer}
                       \cup {Entry(queue[i].cmd.layer, Stringify(queue[i].cmd.content))}
    /\ running' = running (+) SetToBag({queue[i]})
    /\ queue' = RemoveAt(queue, i)
    /\ Stale
    /\ UNCHANGED <<dev, initialized, now, states, diffVars, execVars>>

\* The queued callback of a 'removed' command: it returns null.
HTTPFireRemoved(i) ==
    /\ dev = "http"
    /\ CanStart(HTTPSendMode, queue, running, now, i)
    /\ queue[i].cmd.commandName = "removed"
    /\ activeLayers' = {e \in activeLayers : e.key # queue[i].cmd.layer}
    /\ queue' = RemoveAt(queue, i)
    /\ Stale
    /\ UNCHANGED <<dev, initialized, now, running, states, diffVars, execVars>>

---------------------------------------------------------------------------
(* Quantel device *)

\* new DoOnTime(..., SendMode.IN_ORDER, ...)
QuantelSendMode == "IN_ORDER"

\* Variant of QuantelInitThrows: zoneId is required as well.
QuantelInitThrows_allFour(options) ==
    \/ "gatewayUrl" \notin options
    \/ "ISAUrl" \notin options
    \/ "zoneId" \notin options
    \/ "serverId" \notin options

\* init throws when one of these options is missing (or falsy).
QuantelInitThrows(options) ==
    \/ "gatewayUrl" \notin options
    \/ "ISAUrl" \notin options
    \/ "serverId" \notin options

\* init: _quantel.init(...) is reached, and the gateway initialized, unless
\* init has thrown. The history keeps the options init was given.
Quantelinit(options) ==
    /\ dev = "quantel"
    /\ ~initialized
    /\ initialized' = ~QuantelInitThrows(options)
    /\ lastOp' = [op |-> "init", t |-> 0, removed |-> 0, added |-> 0,
                  options |-> options]
    /\ UNCHANGED <<dev, now, queue, running, states, activeLayers, nOps,
                   diffVars, execVars>>

QuantelPreviousStateTime(time, newState) == Max(time, newState.time)

QuantelOldState(st, previousStateTime) ==
    IF IsSome(getStateBefore(st, previousStateTime))
    THEN getStateBefore(st, previousStateTime)[1].state
    ELSE QuantelEmptyState

\* _addToQueue(commandsToAchieveState)
QuantelAddToQueue(q, commands) ==
    LET F[i \in 0..Len(commands)] ==
            IF i = 0 THEN q
            ELSE DoOnTimeQueue(F[i - 1], commands[i].time, Some(commands[i].portId),
                               commands[i])
    IN  F[Len(commands)]

\* handleState before init: a warning, and nothing else.
QuantelhandleStateNotInitialized(newState) ==
    /\ dev = "quantel"
    /\ ~initialized
    /\ lastOp' = OpRec("handleStateIgnored", newState.time, 0, 0)
    /\ UNCHANGED <<dev, initialized, now, queue, running, states, activeLayers, nOps,
                   diffVars, execVars>>

\* handleState, from the diff to the queue.
QuantelQueueAfterHandleState(q, oldQuantelState, newQuantelState, time, previousStateTime) ==
    QuantelAddToQueue(clearQueueNowAndAfter(q, previousStateTime),
                      Quantel_diffStates(oldQuantelState, newQuantelState, time))

QuantelhandleState(newState, mappings) ==
    LET previousStateTime == QuantelPreviousStateTime(now, newState)
        oldQuantelState == QuantelOldState(states, previousStateTime)
        converted == convertStateToQuantel(newState, mappings)
        commands == Quantel_diffStates(oldQuantelState, converted.state, newState.time)
    IN  /\ dev = "quantel"
        /\ CanCall
        /\ initialized
        /\ converted.ok
        /\ queue' = QuantelQueueAfterHandleState(queue, oldQuantelState, converted.state,
                                                 newState.time, previousStateTime)
        /\ states' = setState(states, converted.state, newState.time)
        /\ Record([op |-> "handleState", t |-> newState.time,
                   removed |-> Len(queue)
                               - Len(clearQueueNowAndAfter(queue, previousStateTime)),
                   added |-> Len(commands),
                   skipped |-> SkippedLayers(newState, mappings)])
        /\ UNCHANGED <<dev, initialized, now, running, activeLayers, diffVars, execVars>>

QuantelclearFuture(clearAfterTime) ==
    /\ dev = "quantel"
    /\ CanCall
    /\ queue' = clearQueueAfter(queue, clearAfterTime)
    /\ Record(OpRec("clearFuture", clearAfterTime,
                    Len(queue) - Len(clearQueueAfter(queue, clearAfterTime)), 0))
    /\ UNCHANGED <<dev, initialized, now, running, states, activeLayers, diffVars, execVars>>

QuantelmakeReady(okToDestroyStuff) ==
    /\ dev = "quantel"
    /\ CanCall
    /\ states' = IF okToDestroyStuff THEN clearStates(states) ELSE states
    /\ Record(OpRec("makeReady", 0, 0, 0))
    /\ UNCHANGED <<dev, initialized, now, queue, running, activeLayers, diffVars, execVars>>

\* The queued callback: _doCommand hands the command to the command receiver.
QuantelFire(i) ==
    /\ dev = "quantel"
    /\ CanStart(QuantelSendMode, queue, running, now, i)
    /\ running' = running (+) SetToBag({queue[i]})
    /\ queue' = RemoveAt(queue, i)
    /\ Stale
    /\ UNCHANGED <<dev, initialized, now, states, activeLayers, diffVars, execVars>>

---------------------------------------------------------------------------
(* QuantelManager: the executor of the Quantel commands. A command is run      *)
(* as one step; the answers of the gateway and the protocol call that       *)
(* fails, if one does, are inputs of the step.                              *)

DEFAULT_FPS == 50
JUMP_ERROR_MARGIN == 5

\* A number or null/undefined used as a condition: 0 is falsy.
Truthy(o) == IsSome(o) /\ o[1] # 0

\* Math.round(n / d) and Math.floor(n / d) for n >= 0, d > 0
Round(n, d) == (2 * n + d) \div (2 * d)
Floor(n, d) == n \div d
Abs(x) == IF x < 0 THEN 0 - x ELSE x

\* The tracked entry setupPort stores.
TrackedPortInit(channel) ==
    [loadedFragments |-> <<>>, offset |-> 0, playing |-> FALSE, jumpOffset |-> None,
     scheduledStop |-> None, channel |-> channel]

\* The ClipID searchClip finds for a title.
ClipIdOf(title) == IF title = "A" THEN 1 ELSE 2

\* A command in progress: tp is the tracked entry of its port (None when the
\* port is not tracked), calls the protocol calls made so far, ok whether it
\* is still running (it has not thrown); the failAt-th call fails, with
\* error.status = status.
MgrBegin(m, portId, failAt, status) ==
    [tp |-> m.port[portId], cache |-> m.cache, clipId |-> m.clipId, calls |-> <<>>,
     ok |-> TRUE, failAt |-> failAt, status |-> status]

\* A call of the gateway; its failure throws unless it is swallowed (caught,
\* or not awaited).
MgrCall(st, op, arg, swallow) ==
    IF ~st.ok THEN st
    ELSE LET fails == (Len(st.calls) + 1 = st.failAt)
         IN  [st EXCEPT !.calls = Append(@, [op |-> op, arg |-> arg, failed |-> fails]),
                        !.ok = (~fails) \/ swallow]

\* trackedPort.field = v
MgrSet(st, field, v) ==
    IF st.ok THEN [st EXCEPT !.tp = Some([@[1] EXCEPT ![field] = v])] ELSE st

\* throw new Error(...)
MgrThrow(st) == [st EXCEPT !.ok = FALSE]

\* Variant of setupPort: the port is set up whatever is tracked.
setupPort_always(st, cmd, remotePort) ==
    LET s1 == MgrCall(st, "getPort", <<>>, FALSE)
        s2 == IF IsSome(remotePort)
              THEN MgrCall(s1, "releasePort", <<>>, FALSE) ELSE s1
        s3 == MgrCall(s2, "createPort", <<cmd.channel>>, FALSE)
    IN  IF s3.ok THEN [s3 EXCEPT !.tp = Some(TrackedPortInit(cmd.channel))] ELSE s3

\* setupPort; remotePort is the answer of getPort.
setupPort(st, cmd, remotePort) ==
    IF ~IsSome(st.tp) \/ st.tp[1].channel # cmd.channel
    THEN LET s1 == MgrCall(st, "getPort", <<>>, FALSE)
             s2 == IF IsSome(remotePort)
                   THEN MgrCall(s1, "releasePort", <<>>, FALSE) ELSE s1
             s3 == MgrCall(s2, "createPort", <<cmd.channel>>, FALSE)
         IN  IF s3.ok THEN [s3 EXCEPT !.tp = Some(TrackedPortInit(cmd.channel))] ELSE s3
    ELSE st

\* Variant of releasePort: every failure is caught.
releasePort_catchesAll(st, cmd) ==
    LET s1 == MgrCall(st, "releasePort", <<>>, TRUE)
    IN  IF s1.ok THEN [s1 EXCEPT !.tp = None] ELSE s1

\* releasePort: a failure with status 404 is caught.
releasePort(st, cmd) ==
    LET s1 == MgrCall(st, "releasePort", <<>>, st.status = 404)
    IN  IF s1.ok THEN [s1 EXCEPT !.tp = None] ELSE s1

\* getClipId: the clips come without clipId; the id is searched by title
\* unless the cache holds it.
getClipId(st, clip) ==
    IF clip.title \in st.cache THEN st
    ELSE LET s1 == MgrCall(st, "getServer", <<>>, FALSE)
             s2 == MgrCall(s1, "searchClip", <<>>, FALSE)
         IN  IF s2.ok
             THEN [s2 EXCEPT !.cache = @ \cup {clip.title},
                             !.clipId = @ \cup {clip.title}]
             ELSE s2

\* In point and out point of the clip, in frames.
InPointFrames(clip) ==
    IF Truthy(clip.inPoint) THEN Round(clip.inPoint[1] * DEFAULT_FPS, 1000) ELSE 0
LengthFrames(clip, clipFrames) ==
    LET l == IF Truthy(clip.length) THEN Round(clip.length[1] * DEFAULT_FPS, 1000) ELSE 0
        l2 == IF l # 0 THEN l ELSE clipFrames
    IN  IF Truthy(clip.inPoint) /\ ~Truthy(clip.length) THEN l2 - InPointFrames(clip) ELSE l2
OutPointFrames(clip, clipFrames) == InPointFrames(clip) + LengthFrames(clip, clipFrames)

\* Variant of IsLoaded: the points are not compared.
IsLoaded_byClipOnly(tp, clipId, inPointFrames, outPointFrames) ==
    Has(tp.loadedFragments, clipId)

\* Whether the tracked port holds fragments of the clip with these points.
IsLoaded(tp, clipId, inPointFrames, outPointFrames) ==
    /\ Has(tp.loadedFragments, clipId)
    /\ Lookup(tp.loadedFragments, clipId).inPoint = inPointFrames
    /\ Lookup(tp.loadedFragments, clipId).outPoint = outPointFrames

\* Variant of LoadPrepareJump: the stop is scheduled whenever there is time.
LoadPrepareJump_alwaysStops(st, cmd, time, portInPoint) ==
    IF st.ok /\ cmd.timeOfPlay - time > 0
    THEN LET s1 == MgrSet(MgrCall(st, "portStop", <<portInPoint - 1>>, FALSE),
                          "scheduledStop", Some(portInPoint - 1))
             s2 == MgrCall(s1, "portPrepareJump", <<portInPoint>>, FALSE)
         IN  MgrSet(s2, "jumpOffset", Some(portInPoint))
    ELSE st

\* The second half of loadClipFragments: "Prepare the jump?"
LoadPrepareJump(st, cmd, time, portInPoint) ==
    IF st.ok /\ cmd.timeOfPlay - time > 0
    THEN LET s1 == IF portInPoint > 0 /\ st.tp[1].scheduledStop = None
                   THEN MgrSet(MgrCall(st, "portStop", <<portInPoint - 1>>, FALSE),
                               "scheduledStop", Some(portInPoint - 1))
                   ELSE st
             s2 == MgrCall(s1, "portPrepareJump", <<portInPoint>>, FALSE)
         IN  MgrSet(s2, "jumpOffset", Some(portInPoint))
    ELSE st

\* loadClipFragments at time `time`; resp holds the answers of the gateway:
\* the Frames of the clip, the endOfData of the port and the greatest finish
\* of the fragments.
loadClipFragments(st, cmd, time, resp) ==
    IF ~IsSome(st.tp) THEN MgrThrow(st)
    ELSE
    LET clipId == ClipIdOf(cmd.clip.title)
        inPointFrames == InPointFrames(cmd.clip)
        outPointFrames == OutPointFrames(cmd.clip, resp.clipFrames)
        s1 == MgrCall(st, "getServer", <<>>, FALSE)
        s2 == getClipId(s1, cmd.clip)
        s3 == MgrCall(s2, "getClip", <<clipId>>, FALSE)
    IN  IF ~s3.ok THEN s3
        ELSE IF IsLoaded(s3.tp[1], clipId, inPointFrames, outPointFrames)
        THEN LoadPrepareJump(s3, cmd, time,
                             Lookup(s3.tp[1].loadedFragments, clipId).portInPoint)
        ELSE LET s4 == MgrCall(s3, "getClipFragments",
                               IF Truthy(cmd.clip.inPoint) \/ Truthy(cmd.clip.length)
                               THEN <<clipId, inPointFrames, outPointFrames>>
                               ELSE <<clipId>>, FALSE)
                 s5 == MgrCall(s4, "getPort", <<>>, FALSE)
                 portInPoint == resp.endOfData
                 s6 == MgrCall(s5, "loadFragmentsOntoPort", <<portInPoint>>, FALSE)
                 portOutPoint == portInPoint + resp.finish - 1
                 s7 == MgrSet(s6, "loadedFragments",
                              Put(s6.tp[1].loadedFragments, clipId,
                                  [portInPoint |-> portInPoint,
                                   portOutPoint |-> portOutPoint,
                                   inPoint |-> inPointFrames,
                                   outPoint |-> outPointFrames]))
             IN  LoadPrepareJump(s7, cmd, time, portInPoint)

\* The offset prepareClipJump wants the port at.
JumpToOffset(loaded, clip, time) ==
    IF Truthy(clip.playTime)
    THEN Floor(loaded.portInPoint * 1000
               + Max(0, OrElse(IF Truthy(clip.pauseTime) THEN clip.pauseTime ELSE None, time)
                        - clip.playTime[1]) * DEFAULT_FPS, 1000)
    ELSE loaded.portInPoint

\* "Pause the playback" of prepareClipJump
JumpPause(st, alsoDoAction) ==
    IF alsoDoAction = "pause"
    THEN MgrSet(MgrSet(MgrCall(st, "portStop", <<>>, FALSE), "scheduledStop", None),
                "playing", FALSE)
    ELSE st

\* "Trigger the jump" of prepareClipJump
JumpTrigger(st) ==
    LET s1 == MgrCall(st, "portTriggerJump", <<>>, FALSE)
    IN  IF s1.ok THEN MgrSet(s1, "offset", s1.tp[1].jumpOffset[1]) ELSE s1

\* "Start playing" of prepareClipJump
JumpPlay(st, alsoDoAction, loaded) ==
    IF alsoDoAction = "play"
    THEN LET s1 == MgrSet(MgrSet(MgrCall(st, "portPlay", <<>>, FALSE),
                                 "scheduledStop", None), "playing", TRUE)
         IN  IF loaded.portOutPoint # 0
             THEN MgrSet(MgrCall(s1, "portStop", <<loaded.portOutPoint>>, FALSE),
                         "scheduledStop", Some(loaded.portOutPoint))
             ELSE s1
    ELSE st

\* prepareClipJump at time `time`
prepareClipJump(st, cmd, alsoDoAction, time) ==
    IF ~IsSome(st.tp) THEN MgrThrow(st)
    ELSE
    LET clipId == ClipIdOf(cmd.clip.title)
        s1 == getClipId(st, cmd.clip)
    IN  IF ~s1.ok THEN s1
        ELSE IF ~Has(s1.tp[1].loadedFragments, clipId) THEN MgrThrow(s1)
        ELSE
        LET loaded == Lookup(s1.tp[1].loadedFragments, clipId)
            jumpToOffset == JumpToOffset(loaded, cmd.clip, time)
            s2 == IF Truthy(s1.tp[1].jumpOffset)
                     /\ Abs(s1.tp[1].jumpOffset[1] - jumpToOffset) > JUMP_ERROR_MARGIN
                  THEN MgrSet(s1, "jumpOffset", None)
                  ELSE s1
            s3 == IF s2.tp[1].jumpOffset # None
                  THEN JumpTrigger(JumpPause(s2, alsoDoAction))
                  ELSE IF cmd.mode = "QUALITY"
                  THEN JumpTrigger(JumpPause(
                          MgrSet(MgrCall(s2, "portPrepareJump", <<jumpToOffset>>, FALSE),
                                 "jumpOffset", Some(jumpToOffset)),
                          alsoDoAction))
                  ELSE MgrSet(MgrSet(MgrCall(s2, "portHardJump", <<jumpToOffset>>, TRUE),
                                     "offset", jumpToOffset),
                              "playing", FALSE)
        IN  JumpPlay(s3, alsoDoAction, loaded)

playClip(st, cmd, time) == prepareClipJump(st, cmd, "play", time)
pauseClip(st, cmd, time) == prepareClipJump(st, cmd, "pause", time)

\* Variant of clearClip: scheduledStop is not reset.
clearClip_keepsStop(st, cmd) ==
    IF ~IsSome(st.tp) THEN MgrThrow(st)
    ELSE LET s1 == MgrCall(st, "portClear", <<>>, FALSE)
         IN  MgrSet(MgrSet(s1, "jumpOffset", None), "loadedFragments", <<>>)

clearClip(st, cmd) ==
    IF ~IsSome(st.tp) THEN MgrThrow(st)
    ELSE LET s1 == MgrCall(st, "portClear", <<>>, FALSE)
         IN  MgrSet(MgrSet(MgrSet(s1, "jumpOffset", None), "loadedFragments", <<>>),
                    "scheduledStop", None)

\* Bounds and inputs of the executor
MaxCmds == 4
MgrPorts == {"P1"}
MgrChannels == {0, 1}
MgrModes == {"QUALITY", "SPEED"}
MgrTimes == {500, 1400}
MgrClipFrames == {200}
MgrFailStatus == {404, 500}
\* Which protocol call of the command fails: none (0), or the n-th of the
\* calls the command can make.
MgrFailAt(type) ==
    CASE type = "setupPort" -> 0..3
      [] type = "releasePort" -> 0..1
      [] type = "loadClipFragments" -> 0..9
      [] type = "playClip" -> 0..6
      [] type = "pauseClip" -> 0..5
      [] type = "clearClip" -> 0..1
NoResp == [clipFrames |-> 0, endOfData |-> 0, finish |-> 0, remotePort |-> None]
\* The answers of the gateway to loadClipFragments: an empty port and a clip
\* of one frame, or a port with 100 frames on it and a clip of 50.
MgrResps ==
    {[NoResp EXCEPT !.clipFrames = f, !.endOfData = 0, !.finish = 1] :
        f \in MgrClipFrames}
    \cup {[NoResp EXCEPT !.clipFrames = f, !.endOfData = 100, !.finish = 50] :
        f \in MgrClipFrames}

\* The clips of the commands (QuantelStatePortClip), all to be played at 1000.
MgrClip(title, inPoint, playing) ==
    [title |-> title, pauseTime |-> None, playing |-> playing, inPoint |-> inPoint,
     length |-> None, playTime |-> Some(1000)]
MgrClips == {MgrClip("A", None, TRUE), MgrClip("A", Some(200), TRUE)}
MgrPlayedClips == {MgrClip("A", None, TRUE)}

QMInit == [port |-> [p \in MgrPorts |-> None], cache |-> {}, clipId |-> {}]
RunInit == [n |-> 0, cmd |-> [type |-> "none"], time |-> 0, resp |-> NoResp,
            status |-> 0, ok |-> TRUE, calls |-> <<>>, before |-> None, played |-> FALSE,
            signals |-> {}]

\* Variant of QuantelCommandSignals: a command that threw emits 'error'.
QuantelCommandSignals_error(ok) ==
    IF ok THEN {"debug"} ELSE {"debug", "error"}

\* The signals _defaultCommandReceiver emits for a command: 'debug' before
\* the command, 'commandError' in its catch block.
QuantelCommandSignals(ok) ==
    IF ok THEN {"debug"} ELSE {"debug", "commandError"}

\* The command ends: what it did to the tracked state stays, and
\* _defaultCommandReceiver emits commandError when it threw.
MgrEnd(st, cmd, time, resp) ==
    /\ qm' = [port |-> [qm.port EXCEPT ![cmd.portId] = st.tp],
              cache |-> st.cache, clipId |-> st.clipId]
    /\ cmdRun' = [n |-> cmdRun.n + 1, cmd |-> cmd, time |-> time, resp |-> resp,
               status |-> st.status, ok |-> st.ok,
               calls |-> st.calls, before |-> qm.port[cmd.portId],
               played |-> cmdRun.played,
               signals |-> QuantelCommandSignals(st.ok)]
    /\ UNCHANGED <<devVars, diffVars, http, connVars, miscVars>>

\* _defaultCommandReceiver, one action for each type of command
MgrSetupPort(portId, channel, remotePort, failAt) ==
    LET cmd == [type |-> "setupPort", portId |-> portId, channel |-> channel]
    IN  /\ cmdRun.n < MaxCmds
        /\ cmdRun.cmd.type = "none"
        /\ MgrEnd(setupPort(MgrBegin(qm, portId, failAt, 500), cmd, remotePort), cmd, 0,
                  [NoResp EXCEPT !.remotePort = remotePort])

MgrReleasePort(portId, failAt, status) ==
    LET cmd == [type |-> "releasePort", portId |-> portId]
    IN  /\ cmdRun.n < MaxCmds
        /\ cmdRun.cmd.type = "none"
        /\ MgrEnd(releasePort(MgrBegin(qm, portId, failAt, status), cmd), cmd, 0, NoResp)

MgrLoadClipFragments(portId, clip, time, resp, failAt) ==
    LET cmd == [type |-> "loadClipFragments", portId |-> portId, clip |-> clip,
                timeOfPlay |-> 1000]
    IN  /\ cmdRun.n < MaxCmds
        /\ cmdRun.cmd.type = "none"
        /\ MgrEnd(loadClipFragments(MgrBegin(qm, portId, failAt, 500), cmd, time, resp),
           cmd, time, resp)

MgrPlayClip(portId, clip, mode, time, failAt) ==
    LET cmd == [type |-> "playClip", portId |-> portId, clip |-> clip, mode |-> mode]
    IN  /\ cmdRun.n < MaxCmds
        /\ cmdRun.cmd.type = "none"
        /\ MgrEnd(playClip(MgrBegin(qm, portId, failAt, 500), cmd, time), cmd, time, NoResp)

MgrPauseClip(portId, clip, mode, time, failAt) ==
    LET cmd == [type |-> "pauseClip", portId |-> portId, clip |-> clip, mode |-> mode]
    IN  /\ cmdRun.n < MaxCmds
        /\ cmdRun.cmd.type = "none"
        /\ MgrEnd(pauseClip(MgrBegin(qm, portId, failAt, 500), cmd, time), cmd, time, NoResp)

MgrClearClip(portId, failAt) ==
    LET cmd == [type |-> "clearClip", portId |-> portId]
    IN  /\ cmdRun.n < MaxCmds
        /\ cmdRun.cmd.type = "none"
        /\ MgrEnd(clearClip(MgrBegin(qm, portId, failAt, 500), cmd), cmd, 0, NoResp)

\* A command of a type the receiver does not know: it throws
\* `Unsupported command type`.
MgrUnsupported(portId) ==
    LET cmd == [type |-> "unsupported", portId |-> portId]
    IN  /\ cmdRun.n < MaxCmds
        /\ cmdRun.cmd.type = "none"
        /\ MgrEnd(MgrThrow(MgrBegin(qm, portId, 0, 500)), cmd, 0, NoResp)

\* The task of the command settles: the queue may start the next command of
\* the port. played: a playClip has succeeded.
MgrSettles ==
    /\ cmdRun.cmd.type # "none"
    /\ cmdRun' = [RunInit EXCEPT !.n = cmdRun.n,
                                 !.played = cmdRun.played
                                            \/ (cmdRun.cmd.type = "playClip" /\ cmdRun.ok)]
    /\ UNCHANGED <<devVars, diffVars, qm, http, connVars, miscVars>>

\* An entry of the cache passes its endTime.
CacheExpires(title) ==
    /\ title \in qm.cache
    /\ qm' = [qm EXCEPT !.cache = @ \ {title}]
    /\ UNCHANGED <<devVars, diffVars, cmdRun, http, connVars, miscVars>>

---------------------------------------------------------------------------
(* HTTP-send device: _defaultCommandReceiver and its resend *)

\* Variant of HTTPResendTimeOf: every resendTime above 0 is kept.
HTTPResendTimeOf_positive(resendTime) ==
    IF Truthy(resendTime) /\ resendTime[1] > 0 THEN resendTime ELSE None

\* init: initOptions.resendTime && initOptions.resendTime > 1 ? ... : undefined
HTTPResendTimeOf(resendTime) ==
    IF Truthy(resendTime) /\ resendTime[1] > 1 THEN resendTime ELSE None

\* Variant of retryCodes: without the codes of a refused or reset connection.
retryCodes_withoutRefused ==
    {"ETIMEDOUT", "EADDRINUSE", "EPIPE", "ENOTFOUND", "ENETUNREACH", "EHOSTUNREACH",
     "EAI_AGAIN"}

retryCodes == {"ETIMEDOUT", "ECONNRESET", "EADDRINUSE", "ECONNREFUSED", "EPIPE",
               "ENOTFOUND", "ENETUNREACH", "EHOSTUNREACH", "EAI_AGAIN"}

\* Variant of HTTPRetryDelay: without the lower limit 0.
HTTPRetryDelay_unclamped(resendTime, elapsed) == resendTime - elapsed

\* Math.max(this._resendTime - (Date.now() - t), 0)
HTTPRetryDelay(resendTime, elapsed) == Max(resendTime - elapsed, 0)

\* Whether the catch block sends the command again.
HTTPRetries(code, resendTime) == code \in retryCodes /\ Truthy(resendTime)

\* Variant of HTTPStillRelevant: a command is sent unless it is the active
\* command of its layer.
HTTPStillRelevant_unlessActive(layers, layer, cmd) ==
    IsSome(layer) => Entry(layer[1], Stringify(cmd)) \notin layers

\* `if (layer) { ... if (JSON.stringify(cmd) !== hash) return }`
HTTPStillRelevant(layers, layer, cmd) ==
    IsSome(layer) => Entry(layer[1], Stringify(cmd)) \in layers

\* Variant of HTTPResponseSignals: a bad status code is an error of the command.
HTTPResponseSignals_errorOnBad(statusCode) ==
    IF statusCode = 200 THEN {"debug"} ELSE {"error", "commandError"}

\* The signals emitted for a response.
HTTPResponseSignals(statusCode) ==
    IF statusCode = 200 THEN {"debug"} ELSE {"warning"}

\* The signals the catch block emits.
HTTPErrorSignals == {"error", "commandError"}

MaxRequests == 3
HttpResendOptions == {None, Some(0), Some(1), Some(2), Some(300), Some(1000)}
\* error.code of a failed request: codes that are resent, one that is not,
\* and an error without code.
HttpErrorCodes ==
    {"ETIMEDOUT", "ECONNRESET", "EADDRINUSE", "ECONNREFUSED", "EPIPE", "ENOTFOUND",
     "ENETUNREACH", "EHOSTUNREACH", "EAI_AGAIN", "ERR_NON_2XX_3XX_RESPONSE", "none"}
HttpElapsed == {10, 300, 500}
HttpStatusCodes == {200, 204, 500}
HttpContents == {cA, cB, cC}

\* given: the resendTime init was given; err: the code of the error of the last
\* request; status: the statusCode of the last response; signals: the signals
\* emitted for the last request; refired: the command was fired on a layer
\* whose active command it already was.
HttpIdle == [resendTime |-> None, phase |-> "idle", cmd |-> cA, layer |-> None,
             requests |-> 0, delay |-> 0, given |-> None, err |-> None,
             status |-> None, signals |-> {}, refired |-> FALSE]

\* The HTTP device after construction. reqs: the calls of the command
\* receiver that have not ended; mr: the index of the makeReadyCommand that
\* makeReady is awaiting (0: makeReady is not running). Of the last call of
\* makeReady: mrOk, its argument; mrRemoved, the number of queue entries it
\* removed; mrSent, the commands it gave to the command receiver;
\* mrRequests, the commands of the requests started for them. fired: for
\* each layer the content of the 'added' or 'changed' command fired last, if
\* no 'removed' command has fired since.
SenderInit == [inited |-> FALSE, fired |-> [l \in {"L1", "L2"} |-> None], makeReadyCommands |-> <<>>, makeReadyDoesReset |-> FALSE,
               resendTime |-> None, reqs |-> EmptyBag, mr |-> 0, mrOk |-> FALSE,
               mrRemoved |-> 0, mrSent |-> <<>>, mrRequests |-> <<>>]

\* The callers of Cache.getSet
CacheCallers == {"c1", "c2"}
CacheCallerIdle == [phase |-> "idle", key |-> "", value |-> 0]

\* new Cache(): no data, callCount 0. computed: the number of times the
\* function given to getSet was called, for each key.
CacheKeys == {"clip.A.clipId", "clip.B.clipId"}
CacheInit == [data |-> {}, callCount |-> 0, clean |-> FALSE, calls |-> 0,
              caller |-> [c \in CacheCallers |-> CacheCallerIdle],
              computed |-> [k \in CacheKeys |-> 0]]

\* makeReady of the CasparCG device is not running.
SyncInit == [phase |-> "idle", okToDestroy |-> FALSE, channels |-> 0, channel |-> 0,
             tries |-> 0, startTime |-> 0, timeSent |-> <<>>, errors |-> {}]

\* The CasparCG device after construction: no connection object yet, an
\* empty _queue, _connected false. sent: the commands handed to the
\* connection and not yet answered.
CcgInit == [hasCcg |-> FALSE, useScheduling |-> FALSE, _queue |-> {}, sent |-> {},
            _connected |-> FALSE, connected |-> FALSE]

ExecInit ==
    /\ qm = QMInit
    /\ cmdRun = RunInit
    /\ http = HttpIdle
    /\ ccg = CcgInit
    /\ gatewayConnected = FALSE
    /\ cacheObj = CacheInit
    /\ sync = SyncInit
    /\ sender = SenderInit

HTTPinit(resendTime) ==
    /\ http.phase = "idle"
    /\ http' = [http EXCEPT !.resendTime = HTTPResendTimeOf(resendTime),
                             !.given = resendTime]
    /\ UNCHANGED <<devVars, diffVars, qm, cmdRun, connVars, miscVars>>

\* _defaultCommandReceiver up to the request: the command is sent unless it is
\* no longer the command of its layer.
HTTPReceive(h, layers) ==
    IF HTTPStillRelevant(layers, h.layer, h.cmd)
    THEN [h EXCEPT !.phase = "request", !.requests = @ + 1, !.delay = 0,
                   !.err = None, !.status = None, !.signals = {}]
    ELSE [h EXCEPT !.phase = "done", !.delay = 0,
                   !.err = None, !.status = None, !.signals = {}]

\* The callback of an 'added' or 'changed' command of a layer calls the
\* command receiver.
HTTPCallbackSends(content, layerKey) ==
    /\ http.phase \in {"idle", "done"}
    /\ activeLayers' = {e \in activeLayers : e.key # layerKey}
                       \cup {Entry(layerKey, Stringify(content))}
    /\ http' = HTTPReceive([http EXCEPT !.cmd = content, !.layer = Some(layerKey),
                                        !.requests = 0,
                                        !.refired = Entry(layerKey, Stringify(content))
                                                      \in activeLayers],
                           activeLayers')
    /\ UNCHANGED <<dev, initialized, now, queue, running, states, nOps, lastOp,
                   diffVars, qm, cmdRun, connVars, miscVars>>

\* makeReady sends a makeReadyCommand: the command receiver is called
\* without a layer.
HTTPmakeReadySends(content) ==
    /\ http.phase \in {"idle", "done"}
    /\ http' = HTTPReceive([http EXCEPT !.cmd = content, !.layer = None,
                                        !.requests = 0, !.refired = FALSE],
                           activeLayers)
    /\ UNCHANGED <<devVars, diffVars, qm, cmdRun, connVars, miscVars>>

\* The request is answered (with a good or a bad status code).
HTTPResponse(statusCode) ==
    /\ http.phase = "request"
    /\ http' = [http EXCEPT !.phase = "done", !.status = Some(statusCode),
                             !.signals = HTTPResponseSignals(statusCode)]
    /\ UNCHANGED <<devVars, diffVars, qm, cmdRun, connVars, miscVars>>

\* The request fails, `elapsed` ms after it was sent: the catch block.
HTTPRequestError(code, elapsed) ==
    /\ http.phase = "request"
    /\ http' = IF HTTPRetries(code, http.resendTime)
               THEN [http EXCEPT !.phase = "wait", !.err = Some(code),
                                 !.signals = HTTPErrorSignals,
                                 !.delay = HTTPRetryDelay(http.resendTime[1], elapsed)]
               ELSE [http EXCEPT !.phase = "done", !.err = Some(code),
                                 !.signals = HTTPErrorSignals]
    /\ UNCHANGED <<devVars, diffVars, qm, cmdRun, connVars, miscVars>>

\* The timer of the catch block fires: _defaultCommandReceiver is called again.
HTTPResend ==
    /\ http.phase = "wait"
    /\ http.requests < MaxRequests
    /\ http' = HTTPReceive(http, activeLayers)
    /\ UNCHANGED <<devVars, diffVars, qm, cmdRun, connVars, miscVars>>

\* The callback of another command of the layer changes what is active on it.
HTTPLayerChanges(content) ==
    /\ http.phase \in {"request", "wait"}
    /\ IsSome(http.layer)
    /\ content # http.cmd
    /\ activeLayers' = {e \in activeLayers : e.key # http.layer[1]}
                       \cup {Entry(http.layer[1], Stringify(content))}
    /\ UNCHANGED <<dev, initialized, now, queue, running, states, nOps, lastOp,
                   diffVars, execVars>>

---------------------------------------------------------------------------
(* Both devices *)

\* The task a callback returned completes or fails.
CallbackSettles(r) ==
    /\ running' = running (-) SetToBag({r})
    /\ Stale
    /\ UNCHANGED <<dev, initialized, now, queue, states, activeLayers, diffVars, execVars>>

\* Time passes.
Tick(t) ==
    /\ t > now
    /\ now' = t
    /\ UNCHANGED <<dev, initialized, queue, running, states, activeLayers, nOps,
                   lastOp, diffVars, execVars>>

NoInput == [kind |-> "none"]
NoOutput == [done |-> FALSE, commands |-> <<>>, alt |-> <<>>, self |-> <<>>,
             queued |-> <<>>]

DevInit ==
    /\ initialized = (dev = "http")
    /\ now = 0
    /\ queue = <<>>
    /\ running = EmptyBag
    /\ states = {}
    /\ activeLayers = {}
    /\ nOps = 0
    /\ lastOp = NoOp

Init ==
    /\ dev \in {"http", "quantel"}
    /\ DevInit
    /\ din = NoInput
    /\ dout = NoOutput
    /\ ExecInit

Next ==
    \/ \E t \in SnapTimes : HTTPprepareForHandleState(t)
    \/ \E layers \in HttpSnapshots, t \in SnapTimes : HTTPhandleState(HTimeline(layers, t))
    \/ \E t \in SnapTimes : HTTPclearFuture(t)
    \/ \E i \in DOMAIN queue : HTTPFireSend(i)
    \/ \E i \in DOMAIN queue : HTTPFireRemoved(i)
    \/ \E options \in QuantelOptionSets : Quantelinit(options)
    \/ \E sn \in QuantelSnapshots, t \in SnapTimes :
          QuantelhandleStateNotInitialized([time |-> t, layers |-> sn[1]])
    \/ \E sn \in QuantelSnapshots, t \in SnapTimes :
          QuantelhandleState([time |-> t, layers |-> sn[1]], sn[2])
    \/ \E t \in SnapTimes : QuantelclearFuture(t)
    \/ \E ok \in BOOLEAN : QuantelmakeReady(ok)
    \/ \E i \in DOMAIN queue : QuantelFire(i)
    \/ \E r \in BagToSet(running) : CallbackSettles(r)
    \/ \E t \in NowTimes : Tick(t)

Spec == Init /\ [][Next]_vars

---------------------------------------------------------------------------
(* CasparCG device. The commands the state library computes for a          *)
(* transition are an input of the model: a snapshot is one of a few named  *)
(* states, and the transition to it needs the commands listed for it.      *)

\* new DoOnTime(..., SendMode.BURST, ...)
CasparSendMode == "BURST"

CasparSnapshots == {"s1", "s2"}
CasparEmptyLayers == "s0"

\* _diffStates(oldCasparState, newCasparState, time), from the state library
CasparDiff(oldLayers, newLayers) ==
    IF oldLayers = newLayers THEN <<>>
    ELSE IF newLayers = "s1" THEN <<"play1">>
    ELSE IF newLayers = "s2" THEN <<"play1", "play2">>
    ELSE <<"clear">>

CasparOldState(st, previousStateTime) ==
    IF IsSome(getStateBefore(st, previousStateTime))
    THEN getStateBefore(st, previousStateTime)[1].state
    ELSE [time |-> 0, layers |-> CasparEmptyLayers]

\* `${time.toString(36).substr(-8)}_${('000' + i).substr(-4)}`
CasparToken(time, i) == <<time, i>>

\* this._queue[token] = { time, command }
CasparPut(Q, token, time, command) ==
    {q \in Q : q.token # token} \cup {[token |-> token, time |-> time, command |-> command]}

\* A command handed to _ccg.do(...)
CasparSent(name, token, command) == [name |-> name, token |-> token, command |-> command]

\* Variant of CasparTokensAfter: the tokens at the time itself are taken too.
CasparTokensAfter_inclusive(Q, clearAfterTime) == {q \in Q : q.time >= clearAfterTime}

\* clearFuture: the tokens of _queue with time > clearAfterTime
CasparTokensAfter(Q, clearAfterTime) == {q \in Q : q.time > clearAfterTime}

\* _clearScheduledFutureCommands(time, commandsToSendNow): the _queue it
\* leaves, the entries it sends a ScheduleRemoveCommand for, and what is left
\* of commandsToSendNow.
Caspar_clearScheduledFutureCommands(Q, time, commandsToSendNow) ==
    LET Matches(q) ==
            /\ q.time = time
            /\ \E i \in DOMAIN commandsToSendNow : commandsToSendNow[i] = q.command
        future == {q \in Q : ~(q.time < now) /\ q.time >= time}
        matched == {q \in future : Matches(q)}
        NotMatched(c) == \A q \in matched : q.command # c
    IN  [queue |-> {q \in Q : ~(q.time < now) /\ (q.time < time \/ q \in matched)},
         removed |-> future \ matched,
         commands |-> SelectSeq(commandsToSendNow, NotMatched)]

\* _addToQueue with scheduling: the _queue and the commands sent
Caspar_addScheduled(Q, sent, commands, time) ==
    LET F[i \in 0..Len(commands)] ==
            IF i = 0 THEN [queue |-> Q, sent |-> sent]
            ELSE IF time <= now
            THEN [queue |-> F[i - 1].queue,
                  sent |-> F[i - 1].sent \cup {CasparSent("Command", None, commands[i])}]
            ELSE [queue |-> CasparPut(F[i - 1].queue, CasparToken(time, i - 1), time,
                                      commands[i]),
                  sent |-> F[i - 1].sent
                           \cup {CasparSent("ScheduleSetCommand",
                                            Some(CasparToken(time, i - 1)), commands[i])}]
    IN  F[Len(commands)]

\* _addToQueue without scheduling: the timed queue
Caspar_addTimed(q, commands, time) ==
    LET F[i \in 0..Len(commands)] ==
            IF i = 0 THEN q
            ELSE DoOnTimeQueue(F[i - 1], time, None, commands[i])
    IN  F[Len(commands)]

\* init: info() is answered or fails.
Casparinit(useScheduling, infoOk) ==
    /\ dev = "casparcg"
    /\ ~ccg.hasCcg
    /\ ccg' = [ccg EXCEPT !.hasCcg = TRUE, !.useScheduling = useScheduling]
    /\ initialized' = infoOk
    /\ lastOp' = OpRec("init", 0, 0, 0)
    /\ UNCHANGED <<dev, now, queue, running, states, activeLayers, nOps, diffVars,
                   qm, cmdRun, http, gatewayConnected, miscVars>>

\* The connection changes: onConnectionChanged sets _connected; on a
\* connect the handler of CONNECTED calls makeReady(false), which sets the
\* time of the server when scheduling is used, and resets the stored states
\* after a restart of the server.
CasparConnectionChanged(connected, virginServer) ==
    /\ dev = "casparcg"
    /\ ccg.hasCcg
    /\ connected # ccg.connected
    /\ ccg' = [ccg EXCEPT !.connected = connected, !._connected = connected,
                          !.sent = IF connected /\ ccg.useScheduling
                                   THEN @ \cup {CasparSent("Command", None, "time")}
                                   ELSE @]
    /\ states' = IF connected /\ virginServer THEN clearStates(states) ELSE states
    /\ Stale
    /\ UNCHANGED <<dev, initialized, now, queue, running, activeLayers, diffVars,
                   qm, cmdRun, http, gatewayConnected, miscVars>>

\* Variant of CasparhandleStateNotInitialized: the snapshot is stored.
CasparhandleStateNotInitialized_stores(newState) ==
    /\ dev = "casparcg"
    /\ ~initialized
    /\ states' = setState(states, newState, newState.time)
    /\ lastOp' = OpRec("handleStateIgnored", newState.time, 0, 0)
    /\ UNCHANGED <<dev, initialized, now, queue, running, activeLayers, nOps,
                   diffVars, execVars>>

\* handleState before the state library is initialized: a warning only.
CasparhandleStateNotInitialized(newState) ==
    /\ dev = "casparcg"
    /\ ~initialized
    /\ lastOp' = OpRec("handleStateIgnored", newState.time, 0, 0)
    /\ UNCHANGED <<dev, initialized, now, queue, running, states, activeLayers, nOps,
                   diffVars, execVars>>

CasparhandleState(newState) ==
    LET previousStateTime == Max(now, newState.time)
        oldState == CasparOldState(states, previousStateTime)
        commandsToAchieveState == CasparDiff(oldState.layers, newState.layers)
        cleared == Caspar_clearScheduledFutureCommands(ccg._queue, newState.time,
                                                       commandsToAchieveState)
        removes == {CasparSent("ScheduleRemoveCommand", Some(q.token), q.command) :
                        q \in cleared.removed}
        added == Caspar_addScheduled(cleared.queue, ccg.sent \cup removes,
                                     cleared.commands, newState.time)
    IN  /\ dev = "casparcg"
        /\ CanCall
        /\ initialized
        /\ IF ccg.useScheduling
           THEN /\ ccg' = [ccg EXCEPT !._queue = added.queue, !.sent = added.sent]
                /\ UNCHANGED queue
           ELSE /\ queue' = Caspar_addTimed(clearQueueNowAndAfter(queue, previousStateTime),
                                            commandsToAchieveState, newState.time)
                /\ UNCHANGED ccg
        /\ states' = setState(states, newState, newState.time)
        /\ Record(OpRec("handleState", newState.time,
                        Len(queue) - Len(clearQueueNowAndAfter(queue, previousStateTime)),
                        Len(commandsToAchieveState)))
        /\ UNCHANGED <<dev, initialized, now, running, activeLayers, diffVars,
                       qm, cmdRun, http, gatewayConnected, miscVars>>

\* clearFuture: with scheduling a ScheduleRemoveCommand is sent for every
\* token after clearAfterTime, and _queue is left as it is.
CasparclearFuture(clearAfterTime) ==
    /\ dev = "casparcg"
    /\ CanCall
    /\ IF ccg.useScheduling
       THEN /\ ccg' = [ccg EXCEPT !.sent = @ \cup
                          {CasparSent("ScheduleRemoveCommand", Some(q.token), q.command) :
                              q \in CasparTokensAfter(ccg._queue, clearAfterTime)}]
            /\ UNCHANGED queue
       ELSE /\ queue' = clearQueueAfter(queue, clearAfterTime)
            /\ UNCHANGED ccg
    /\ Record(OpRec("clearFuture", clearAfterTime,
                    Len(queue) - Len(clearQueueAfter(queue, clearAfterTime)), 0))
    /\ UNCHANGED <<dev, initialized, now, running, states, activeLayers, diffVars,
                   qm, cmdRun, http, gatewayConnected, miscVars>>

\* The queued callback: _doCommand hands the command to the command receiver.
CasparFire(i) ==
    /\ dev = "casparcg"
    /\ CanStart(CasparSendMode, queue, running, now, i)
    /\ running' = running (+) SetToBag({queue[i]})
    /\ queue' = RemoveAt(queue, i)
    /\ Stale
    /\ UNCHANGED <<dev, initialized, now, states, activeLayers, diffVars, execVars>>

\* _defaultCommandReceiver, after _ccg.do(cmd): answered, the token of the
\* command leaves _queue; failed, only the token of a ScheduleSetCommand does.
CasparCommandSettles(c, ok) ==
    /\ dev = "casparcg"
    /\ c \in ccg.sent
    /\ ccg' = [ccg EXCEPT
                 !.sent = @ \ {c},
                 !._queue = IF IsSome(c.token) /\ (ok \/ c.name = "ScheduleSetCommand")
                            THEN {q \in @ : q.token # c.token[1]}
                            ELSE @]
    /\ Stale
    /\ UNCHANGED <<dev, initialized, now, queue, running, states, activeLayers, diffVars,
                   qm, cmdRun, http, gatewayConnected, miscVars>>

\* monitorServerStatus: the gateway reports a change of its connection.
QuantelConnectionChanged(connected) ==
    /\ dev = "quantel"
    /\ initialized
    /\ connected # gatewayConnected
    /\ gatewayConnected' = connected
    /\ Stale
    /\ UNCHANGED <<dev, initialized, now, queue, running, states, activeLayers, diffVars,
                   qm, cmdRun, http, ccg, miscVars>>

\* getStatus().statusCode and the connected property of the three devices
HTTPgetStatus == "GOOD"
HTTPconnected == FALSE
QuantelgetStatus == IF gatewayConnected THEN "GOOD" ELSE "BAD"
Quantelconnected == gatewayConnected
CaspargetStatus_good == "GOOD"
CaspargetStatus == IF ccg._connected THEN "GOOD" ELSE "BAD"
Casparconnected == IF ccg.hasCcg THEN ccg.connected ELSE FALSE

getStatus ==
    IF dev = "http" THEN HTTPgetStatus
    ELSE IF dev = "quantel" THEN QuantelgetStatus ELSE CaspargetStatus
connected ==
    IF dev = "http" THEN HTTPconnected
    ELSE IF dev = "quantel" THEN Quantelconnected ELSE Casparconnected

CasparTimes == {1000, 3000}

DevicesInit ==
    /\ dev \in {"http", "quantel", "casparcg"}
    /\ DevInit
    /\ din = NoInput
    /\ dout = NoOutput
    /\ ExecInit

DevicesNext ==
    \/ \E layers \in HttpSnapshots, t \in CasparTimes : HTTPhandleState(HTimeline(layers, t))
    \/ \E t \in CasparTimes : HTTPclearFuture(t)
    \/ \E options \in QuantelOptionSets : Quantelinit(options)
    \/ \E sn \in QuantelSnapshotsUnmapped, t \in CasparTimes :
          QuantelhandleStateNotInitialized([time |-> t, layers |-> sn[1]])
    \/ \E sn \in QuantelSnapshotsUnmapped, t \in CasparTimes :
          QuantelhandleState([time |-> t, layers |-> sn[1]], sn[2])
    \/ \E t \in CasparTimes : QuantelclearFuture(t)
    \/ \E c \in BOOLEAN : QuantelConnectionChanged(c)
    \/ \E s \in BOOLEAN, ok \in BOOLEAN : Casparinit(s, ok)
    \/ \E c \in BOOLEAN, v \in BOOLEAN : CasparConnectionChanged(c, v)
    \/ \E layers \in CasparSnapshots, t \in CasparTimes :
          CasparhandleStateNotInitialized([time |-> t, layers |-> layers])
    \/ \E layers \in CasparSnapshots, t \in CasparTimes :
          CasparhandleState([time |-> t, layers |-> layers])
    \/ \E t \in CasparTimes : CasparclearFuture(t)
    \/ \E i \in DOMAIN queue : CasparFire(i)
    \/ \E c \in ccg.sent, ok \in BOOLEAN : CasparCommandSettles(c, ok)
    \/ \E r \in BagToSet(running) : CallbackSettles(r)
    \/ \E t \in NowTimes : Tick(t)

SpecDevices == DevicesInit /\ [][DevicesNext]_vars

---------------------------------------------------------------------------
(* Cache, the cache of the QuantelManager: getSet with a function that     *)
(* returns a promise, as getClipId calls it. A call of getSet, the         *)
(* settling of its promise and the clean-up timer are steps.               *)

MaxGetSets == 3

\* set(key, value, ttl = 30000)
CACHE_TTL == 30000
\* if (this.callCount > 100)
CACHE_CLEAN_CALLS == 100

CacheValues == {1, 2}
CacheTimes == {20000, 40000}

\* exists(key): o && (o.endTime || 0) >= Date.now()
Cache_exists(data, key, time) ==
    \E o \in data : o.key = key /\ (IF o.endTime = 0 THEN 0 ELSE o.endTime) >= time

\* get(key), for a key that exists
Cache_get(data, key) == (CHOOSE o \in data : o.key = key).value

\* set(key, value, ttl): the entry, the call count and the clean-up timer
Cache_set(c, key, value, ttl, time) ==
    [c EXCEPT !.data = {o \in @ : o.key # key}
                       \cup {[key |-> key, endTime |-> time + ttl, value |-> value]},
              !.callCount = IF @ + 1 > CACHE_CLEAN_CALLS THEN 0 ELSE @ + 1,
              !.clean = @ \/ (c.callCount + 1 > CACHE_CLEAN_CALLS)]

\* The number of calls of getSet made so far.
CacheCalls == cacheObj.calls

\* getSet(key, fcn): the value of an entry that exists; otherwise fcn is
\* called, and the value is set when its promise is fulfilled.
CacheGetSet(c, key) ==
    /\ CacheCalls < MaxGetSets
    /\ cacheObj.caller[c].phase = "idle"
    /\ cacheObj' =
          IF Cache_exists(cacheObj.data, key, now)
          THEN [cacheObj EXCEPT
                   !.calls = @ + 1,
                   !.caller[c] = [phase |-> "returned", key |-> key,
                                  value |-> Cache_get(cacheObj.data, key)]]
          ELSE [cacheObj EXCEPT
                   !.calls = @ + 1,
                   !.computed[key] = @ + 1,
                   !.caller[c] = [phase |-> "pending", key |-> key, value |-> 0]]
    /\ UNCHANGED <<devVars, diffVars, qm, cmdRun, http, connVars, sync, sender>>

\* The promise of fcn is fulfilled: .then(value => this.set(key, value, ttl))
CacheComputeResolves(c, value) ==
    /\ cacheObj.caller[c].phase = "pending"
    /\ cacheObj' = [Cache_set(cacheObj, cacheObj.caller[c].key, value, CACHE_TTL, now)
                       EXCEPT !.caller[c] = [phase |-> "returned",
                                             key |-> cacheObj.caller[c].key,
                                             value |-> value]]
    /\ UNCHANGED <<devVars, diffVars, qm, cmdRun, http, connVars, sync, sender>>

\* The promise of fcn is rejected: nothing is set.
CacheComputeRejects(c) ==
    /\ cacheObj.caller[c].phase = "pending"
    /\ cacheObj' = [cacheObj EXCEPT !.caller[c] = [phase |-> "failed",
                                                   key |-> cacheObj.caller[c].key,
                                                   value |-> 0]]
    /\ UNCHANGED <<devVars, diffVars, qm, cmdRun, http, connVars, sync, sender>>

\* The caller goes on with the value, or the error, it was given.
CacheCallerContinues(c) ==
    /\ cacheObj.caller[c].phase \in {"returned", "failed"}
    /\ cacheObj' = [cacheObj EXCEPT !.caller[c] = CacheCallerIdle]
    /\ UNCHANGED <<devVars, diffVars, qm, cmdRun, http, connVars, sync, sender>>

\* The timer of _triggerClean: the entries past their endTime are deleted.
CacheClean ==
    /\ cacheObj.clean
    /\ cacheObj' = [cacheObj EXCEPT
                      !.clean = FALSE,
                      !.data = {o \in @ : ~((IF o.endTime = 0 THEN 0 ELSE o.endTime) < now)}]
    /\ UNCHANGED <<devVars, diffVars, qm, cmdRun, http, connVars, sync, sender>>

\* A cache that was never used, or one that has been set 100 times since
\* its last clean-up and holds an entry.
CacheSpecInit ==
    /\ dev = "quantel"
    /\ DevInit
    /\ din = NoInput
    /\ dout = NoOutput
    /\ qm = QMInit
    /\ cmdRun = RunInit
    /\ http = HttpIdle
    /\ ccg = CcgInit
    /\ gatewayConnected = FALSE
    /\ sync = SyncInit
    /\ sender = SenderInit
    /\ cacheObj \in {CacheInit,
                     [CacheInit EXCEPT !.callCount = CACHE_CLEAN_CALLS,
                                       !.data = {[key |-> "clip.B.clipId",
                                                  endTime |-> 10000, value |-> 2]}]}

CacheNext ==
    \/ \E c \in CacheCallers, key \in CacheKeys : CacheGetSet(c, key)
    \/ \E c \in CacheCallers, v \in CacheValues : CacheComputeResolves(c, v)
    \/ \E c \in CacheCallers : CacheComputeRejects(c)
    \/ \E c \in CacheCallers : CacheCallerContinues(c)
    \/ CacheClean
    \/ \E t \in CacheTimes : Tick(t)

SpecCache == CacheSpecInit /\ [][CacheNext]_vars

---------------------------------------------------------------------------
(* The differ harness: the differs applied to every input drawn *)

DiffHttp ==
    /\ din.kind = "http"
    /\ ~dout.done
    /\ dout' = [done |-> TRUE,
                commands |-> HTTPSend_diffStates(din.old, convertStateToHttpSend(din.new)),
                alt |-> HTTPSend_diffStates(din.altOld[1],
                                            convertStateToHttpSend(din.altNew[1])),
                self |-> HTTPSend_diffStates(convertStateToHttpSend(din.new),
                                             convertStateToHttpSend(din.new)),
                queued |-> HTTPQueueAfterHandleState(<<>>, din.old, din.new,
                                                     din.new.time)]
    /\ UNCHANGED <<din, devVars, execVars>>

DiffQuantel ==
    /\ din.kind = "quantel"
    /\ ~dout.done
    /\ dout' = [done |-> TRUE,
                commands |-> Quantel_diffStates(din.old, din.new, din.time),
                alt |-> Quantel_diffStates(din.old, din.new, din.time),
                self |-> Quantel_diffStates(din.new, din.new, din.time),
                queued |-> QuantelQueueAfterHandleState(<<>>, din.old, din.new, din.time,
                                                        din.time)]
    /\ UNCHANGED <<din, devVars, execVars>>

DiffInit ==
    /\ dev = "http"
    /\ DevInit
    /\ din \in HttpDiffInputs \cup QDiffInputs
    /\ dout = NoOutput
    /\ ExecInit

DiffNext == DiffHttp \/ DiffQuantel

SpecDiff == DiffInit /\ [][DiffNext]_vars

---------------------------------------------------------------------------
(* CasparCG device: convertStateToCaspar, for media objects. The state is  *)
(* a dictionary of channels, each with a dictionary of layers.             *)

\* A layer of the state: a media layer, or the empty layer (content NOTHING)
MediaLayer(layerNo, file) ==
    [layerNo |-> layerNo, content |-> "MEDIA", media |-> Some(file), playing |-> TRUE,
     nextUp |-> None]
EmptyLayer(layerNo, nextUp) ==
    [layerNo |-> layerNo, content |-> "NOTHING", media |-> None, playing |-> FALSE,
     nextUp |-> Some(nextUp)]
\* s = stateLayer as NextUp; s.auto = false
NextUpOf(stateLayer) ==
    [layerNo |-> stateLayer.layerNo, content |-> stateLayer.content,
     media |-> stateLayer.media, auto |-> FALSE]

\* The mapping of the layer, or for a lookahead object without one the
\* mapping of the layer it looks ahead for.
CasparFoundMapping(mappings, layerName, layer) ==
    IF Has(mappings, layerName) THEN Some(Lookup(mappings, layerName))
    ELSE IF layer.isLookahead /\ IsSome(layer.lookaheadForLayer)
            /\ Has(mappings, layer.lookaheadForLayer[1])
    THEN Some(Lookup(mappings, layer.lookaheadForLayer[1]))
    ELSE None

\* Variant of CasparChannelNo: the channel number is the channel of the mapping.
CasparChannelNo_asMapped(channel) == channel

\* channel.channelNo = Number(mapping.channel) || 1
CasparChannelNo(channel) == IF channel # 0 THEN channel ELSE 1

\* The foreground and the background branch: the layers of the channel
\* after the object is placed on layer layerNo.
CasparPlaceLayer(layers, layerNo, stateLayer, isLookahead) ==
    IF ~isLookahead
    THEN Put(layers, layerNo,
             [stateLayer EXCEPT !.nextUp =
                 IF Has(layers, layerNo) THEN Lookup(layers, layerNo).nextUp ELSE None])
    ELSE IF ~Has(layers, layerNo)
    THEN Put(layers, layerNo, EmptyLayer(layerNo, NextUpOf(stateLayer)))
    ELSE Put(layers, layerNo,
             [Lookup(layers, layerNo) EXCEPT !.nextUp = Some(NextUpOf(stateLayer))])

convertStateToCaspar(layers, mappings) ==
    LET F[i \in 0..Len(layers)] ==
            IF i = 0 THEN <<>>
            ELSE LET caspar == F[i - 1]
                     layer == layers[i].val
                     found == CasparFoundMapping(mappings, layers[i].key, layer)
                 IN  IF ~IsSome(found) \/ found[1].device # "CASPARCG"
                     THEN caspar
                     ELSE LET mapping == found[1]
                              channel ==
                                  IF Has(caspar, mapping.channel)
                                  THEN Lookup(caspar, mapping.channel)
                                  ELSE [channelNo |-> 0, layers |-> <<>>]
                              channelNo == CasparChannelNo(mapping.channel)
                          IN  Put(caspar, channelNo,
                                  [channelNo |-> channelNo,
                                   layers |-> CasparPlaceLayer(
                                       channel.layers, mapping.layer,
                                       MediaLayer(mapping.layer, layer.file),
                                       layer.isLookahead)])
    IN  F[Len(layers)]

\* The inputs of the projection: a foreground object on L1, a lookahead
\* object for L1 (on a layer of its own, with or without a mapping of its
\* own) and a foreground object on another layer of the same channel, in
\* every order; L1 mapped to channel 0, 1 or 2.
CasparMapping(channel, layer) ==
    [device |-> "CASPARCG", channel |-> channel, layer |-> layer]
CasparObjects ==
    [L1 |-> [id |-> "fg", isLookahead |-> FALSE, lookaheadForLayer |-> None,
             file |-> "amb"],
     L1_lookahead |-> [id |-> "la", isLookahead |-> TRUE, lookaheadForLayer |-> Some("L1"),
                       file |-> "next"],
     L3 |-> [id |-> "fg3", isLookahead |-> FALSE, lookaheadForLayer |-> None,
             file |-> "logo"]]
CasparLayerNames == {"L1", "L1_lookahead", "L3"}
CasparLayerOrders ==
    {o \in UNION {[1..n -> CasparLayerNames] : n \in 0..3} :
        \A i, j \in DOMAIN o : i # j => o[i] # o[j]}
CasparLayersIn(o) == [i \in DOMAIN o |-> Entry(o[i], CasparObjects[o[i]])]
CasparProjInputs ==
    {[kind |-> "caspar", layers |-> CasparLayersIn(o),
      mappings |-> <<Entry("L1", CasparMapping(ch, ly)), Entry("L3", CasparMapping(ch, 20))>>
                   \o (IF own THEN <<Entry("L1_lookahead", CasparMapping(ch, ly))>>
                       ELSE <<>>)] :
        o \in CasparLayerOrders, ch \in {0, 1, 2}, ly \in {0, 10}, own \in BOOLEAN}

ProjectCaspar ==
    /\ din.kind = "caspar"
    /\ ~dout.done
    /\ dout' = [done |-> TRUE, state |-> convertStateToCaspar(din.layers, din.mappings)]
    /\ UNCHANGED <<din, devVars, execVars>>

ProjectorInit ==
    /\ dev = "casparcg"
    /\ DevInit
    /\ din \in CasparProjInputs
    /\ dout = NoOutput
    /\ ExecInit

ProjectorNext == ProjectCaspar

SpecProjector == ProjectorInit /\ [][ProjectorNext]_vars

---------------------------------------------------------------------------
(* CasparCG device: makeReady. The time sync sends a TIME command to every *)
(* channel and sends it again while the answer takes too long.             *)

MaxChannels == 2
MAX_TIMESYNC_TRIES == 5
MAX_TIMESYNC_DURATION == 40
\* How long the server takes to answer a TIME command (ms)
TimeCommandDurations == {10, 50}

\* Variant of TimeSyncGivesUp: give up when the tries reach the limit.
TimeSyncGivesUp_atLimit(tries) == tries >= MAX_TIMESYNC_TRIES

\* if (tries > MAX_TIMESYNC_TRIES)
TimeSyncGivesUp(tries) == tries > MAX_TIMESYNC_TRIES

\* attemptSync(channelNo, tries) up to its first await, called at the given
\* time: the TIME command is sent.
attemptSync(s, channelNo, tries, time) ==
    [s EXCEPT !.phase = "time", !.channel = channelNo, !.tries = tries,
              !.startTime = time,
              !.timeSent = [s.timeSent EXCEPT ![channelNo] = @ + 1]]

\* After the loop over the channels: the channels are cleared when okToDestroyStuff.
SyncAfterLoop(s) ==
    [s EXCEPT !.phase = IF s.okToDestroy THEN "clear" ELSE "done"]

\* attemptSync of the channel has returned: the next channel, or the end of the loop.
SyncNextChannel(s, time) ==
    IF s.channel < s.channels THEN attemptSync(s, s.channel + 1, 1, time)
    ELSE SyncAfterLoop(s)

CasparmakeReady(okToDestroyStuff) ==
    /\ dev = "casparcg"
    /\ sync.phase = "idle"
    /\ sync' = [sync EXCEPT !.phase = "info", !.okToDestroy = okToDestroyStuff]
    /\ UNCHANGED <<devVars, diffVars, qm, cmdRun, http, connVars, cacheObj, sender>>

\* info() is answered with the channels of the server.
CasparInfoAnswers(n) ==
    /\ sync.phase = "info"
    /\ LET s == [sync EXCEPT !.channels = n, !.timeSent = [c \in 1..n |-> 0]]
       IN  sync' = IF ccg.useScheduling /\ n > 0 THEN attemptSync(s, 1, 1, now)
                   ELSE SyncAfterLoop(s)
    /\ UNCHANGED <<devVars, diffVars, qm, cmdRun, http, connVars, cacheObj, sender>>

\* The TIME command is answered after d ms.
CasparTimeAnswers(d) ==
    /\ sync.phase = "time"
    /\ now' = now + d
    /\ LET duration == now' - sync.startTime
       IN  sync' = IF duration > MAX_TIMESYNC_DURATION
                   THEN IF TimeSyncGivesUp(sync.tries)
                        THEN SyncNextChannel([sync EXCEPT !.errors = @ \cup {sync.channel}],
                                             now')
                        ELSE [sync EXCEPT !.phase = "wait"]
                   ELSE SyncNextChannel(sync, now')
    /\ UNCHANGED <<dev, initialized, queue, running, states, activeLayers, nOps, lastOp,
                   diffVars, qm, cmdRun, http, connVars, cacheObj, sender>>

\* The timer of MAX_TIMESYNC_DURATION ms has fired: the next try.
CasparSyncWaitElapsed ==
    /\ sync.phase = "wait"
    /\ now' = now + MAX_TIMESYNC_DURATION
    /\ sync' = attemptSync(sync, sync.channel, sync.tries + 1, now')
    /\ UNCHANGED <<dev, initialized, queue, running, states, activeLayers, nOps, lastOp,
                   diffVars, qm, cmdRun, http, connVars, cacheObj, sender>>

\* The CLEAR commands of all channels are answered: clearStates().
CasparClearAnswers ==
    /\ sync.phase = "clear"
    /\ states' = clearStates(states)
    /\ sync' = [sync EXCEPT !.phase = "done"]
    /\ UNCHANGED <<dev, initialized, now, queue, running, activeLayers, nOps, lastOp,
                   diffVars, qm, cmdRun, http, connVars, cacheObj, sender>>

\* The device is initialized, with or without scheduling, and may hold a state.
SyncSpecInit ==
    /\ dev = "casparcg"
    /\ initialized = TRUE
    /\ now = 0
    /\ queue = <<>>
    /\ running = EmptyBag
    /\ states \in {{}, {[time |-> 0, state |-> "s1"]}}
    /\ activeLayers = {}
    /\ nOps = 0
    /\ lastOp = NoOp
    /\ din = NoInput
    /\ dout = NoOutput
    /\ qm = QMInit
    /\ cmdRun = RunInit
    /\ http = HttpIdle
    /\ ccg \in {[CcgInit EXCEPT !.hasCcg = TRUE, !.useScheduling = u] : u \in BOOLEAN}
    /\ gatewayConnected = FALSE
    /\ cacheObj = CacheInit
    /\ sync = SyncInit
    /\ sender = SenderInit

SyncNext ==
    \/ \E ok \in BOOLEAN : CasparmakeReady(ok)
    \/ \E n \in 0..MaxChannels : CasparInfoAnswers(n)
    \/ \E d \in TimeCommandDurations : CasparTimeAnswers(d)
    \/ CasparSyncWaitElapsed
    \/ CasparClearAnswers

SpecSync == SyncSpecInit /\ [][SyncNext]_vars

---------------------------------------------------------------------------
(* HTTP device: the command receiver and makeReady, with the calls of the  *)
(* command receiver that have not ended (sender.reqs).                     *)

\* The command lists init is given as makeReadyCommands
HttpMakeReadyLists == {<<>>, <<cB>>, <<cA, cC>>}
HttpSenderResend == {None, Some(300)}

\* A call of the command receiver. entry: the queue entry whose callback made
\* the call; index: the index of the makeReadyCommand; holds: the promise the
\* caller awaits is the promise of this call (a call the catch block makes
\* is awaited by nobody); phase: "request" while the request is in flight,
\* "wait" while the timer of the catch block runs.
SenderCall(src, entry, index, layer, cmd) ==
    [src |-> src, entry |-> entry, index |-> index, layer |-> layer, cmd |-> cmd,
     holds |-> TRUE, phase |-> "request", requests |-> 1]

HTTPinitSender(commands, doesReset, resendTime) ==
    /\ dev = "http"
    /\ ~sender.inited
    /\ sender' = [sender EXCEPT !.inited = TRUE, !.makeReadyCommands = commands,
                                !.makeReadyDoesReset = doesReset,
                                !.resendTime = HTTPResendTimeOf(resendTime)]
    /\ UNCHANGED <<devVars, diffVars, qm, cmdRun, http, connVars, cacheObj, sync>>

\* The next step of the loop of makeReady, from command number k on: the
\* command receiver is called with the command, or the loop has ended.
HTTPmakeReadyLoop(s, k) ==
    IF k <= Len(s.makeReadyCommands)
    THEN [s EXCEPT !.mr = k,
                   !.mrSent = Append(@, s.makeReadyCommands[k]),
                   !.mrRequests = Append(@, s.makeReadyCommands[k]),
                   !.reqs = @ (+) SetToBag({SenderCall("makeReady", None, k, None,
                                                       s.makeReadyCommands[k])})]
    ELSE [s EXCEPT !.mr = 0]

\* Variant of HTTPmakeReadyResets: makeReady resets whenever it may destroy.
HTTPmakeReadyResets_always(okToDestroyStuff, doesReset) == okToDestroyStuff

\* if (okToDestroyStuff) { ... if (this._makeReadyDoesReset) {
HTTPmakeReadyResets(okToDestroyStuff, doesReset) == okToDestroyStuff /\ doesReset

\* makeReady is called when no call the last makeReady made is left.
HTTPmakeReady(okToDestroyStuff) ==
    /\ dev = "http"
    /\ sender.inited
    /\ sender.mr = 0
    /\ \A r \in BagToSet(sender.reqs) : r.src # "makeReady"
    /\ CanCall
    /\ IF HTTPmakeReadyResets(okToDestroyStuff, sender.makeReadyDoesReset)
       THEN /\ states' = clearStates(states)
            /\ queue' = clearQueueAfter(queue, 0)
       ELSE UNCHANGED <<states, queue>>
    /\ LET s == [sender EXCEPT !.mrOk = okToDestroyStuff, !.mrSent = <<>>,
                                !.mrRequests = <<>>,
                                !.mrRemoved = Len(queue) - Len(queue')]
       IN  sender' = IF okToDestroyStuff THEN HTTPmakeReadyLoop(s, 1) ELSE s
    /\ Record([op |-> "makeReady", t |-> now, removed |-> Len(queue) - Len(queue'),
               added |-> 0, ok |-> okToDestroyStuff])
    /\ UNCHANGED <<dev, initialized, now, running, activeLayers, diffVars, qm, cmdRun,
                   http, connVars, cacheObj, sync>>

\* The queued callback of an 'added' or 'changed' command: the layer becomes
\* active with the command and the command receiver is called, which starts
\* the request.
HTTPSenderFire(i) ==
    /\ dev = "http"
    /\ CanStart(HTTPSendMode, queue, running, now, i)
    /\ queue[i].cmd.commandName \in {"added", "changed"}
    /\ activeLayers' = {e \in activeLayers : e.key # queue[i].cmd.layer}
                       \cup {Entry(queue[i].cmd.layer, Stringify(queue[i].cmd.content))}
    /\ running' = running (+) SetToBag({queue[i]})
    /\ queue' = RemoveAt(queue, i)
    /\ sender' = [sender EXCEPT !.reqs = @ (+) SetToBag({SenderCall(
                     "queue", Some(queue[i]), 0, Some(queue[i].cmd.layer),
                     queue[i].cmd.content)}),
                                !.fired[queue[i].cmd.layer] = Some(queue[i].cmd.content)]
    /\ Stale
    /\ UNCHANGED <<dev, initialized, now, states, diffVars, qm, cmdRun, http, connVars,
                   cacheObj, sync>>

\* The queued callback of a 'removed' command: the layer is no longer
\* active, and the callback returns null.
HTTPSenderFireRemoved(i) ==
    /\ dev = "http"
    /\ CanStart(HTTPSendMode, queue, running, now, i)
    /\ queue[i].cmd.commandName = "removed"
    /\ activeLayers' = {e \in activeLayers : e.key # queue[i].cmd.layer}
    /\ queue' = RemoveAt(queue, i)
    /\ sender' = [sender EXCEPT !.fired[queue[i].cmd.layer] = None]
    /\ Stale
    /\ UNCHANGED <<dev, initialized, now, running, states, diffVars, qm, cmdRun, http,
                   connVars, cacheObj, sync>>

\* The promise of the call r is fulfilled: the callback of the queue entry
\* has settled, or makeReady goes on with its next command.
SenderSettles(r, s) ==
    /\ running' = IF r.holds /\ r.src = "queue"
                  THEN running (-) SetToBag({r.entry[1]}) ELSE running
    /\ sender' = IF r.holds /\ r.src = "makeReady"
                 THEN HTTPmakeReadyLoop(s, r.index + 1) ELSE s

\* The request of the call r is answered.
HTTPSenderResponse(r) ==
    /\ r.phase = "request"
    /\ SenderSettles(r, [sender EXCEPT !.reqs = @ (-) SetToBag({r})])
    /\ Stale
    /\ UNCHANGED <<dev, initialized, now, queue, states, activeLayers, diffVars, qm,
                   cmdRun, http, connVars, cacheObj, sync>>

\* The request of the call r fails with the error code: the catch block
\* starts its timer, or the call ends.
HTTPSenderError(r, code) ==
    /\ r.phase = "request"
    /\ IF HTTPRetries(code, sender.resendTime)
       THEN /\ sender' = [sender EXCEPT !.reqs = (@ (-) SetToBag({r}))
                                           (+) SetToBag({[r EXCEPT !.phase = "wait"]})]
            /\ UNCHANGED running
       ELSE SenderSettles(r, [sender EXCEPT !.reqs = @ (-) SetToBag({r})])
    /\ Stale
    /\ UNCHANGED <<dev, initialized, now, queue, states, activeLayers, diffVars, qm,
                   cmdRun, http, connVars, cacheObj, sync>>

\* The timer of the catch block of the call r fires: the command receiver is
\* called again, not awaited, and the call r ends.
HTTPSenderResend(r) ==
    /\ r.phase = "wait"
    /\ r.requests < MaxRequests
    /\ SenderSettles(r,
          [sender EXCEPT !.reqs =
              (@ (-) SetToBag({r}))
              (+) (IF HTTPStillRelevant(activeLayers, r.layer, r.cmd)
                   THEN SetToBag({[r EXCEPT !.phase = "request", !.holds = FALSE,
                                            !.requests = @ + 1]})
                   ELSE EmptyBag),
                         !.mrRequests =
                             IF /\ r.src = "makeReady"
                                /\ HTTPStillRelevant(activeLayers, r.layer, r.cmd)
                             THEN Append(@, r.cmd) ELSE @])
    /\ Stale
    /\ UNCHANGED <<dev, initialized, now, queue, states, activeLayers, diffVars, qm,
                   cmdRun, http, connVars, cacheObj, sync>>

SenderTimes == {1000, 3000}
\* The layers of the snapshots: one layer, with a command of the queueId q1
\* or a command without queueId, or empty.
SenderSnapshots ==
    {LayersOf(Some(o1), None), LayersOf(Some(o4), None), LayersOf(Some(o2), None),
     LayersOf(None, None)}

SenderSpecInit ==
    /\ dev = "http"
    /\ DevInit
    /\ din = NoInput
    /\ dout = NoOutput
    /\ ExecInit

\* The device sends the commands of its queue; no makeReadyCommands.
SenderNext ==
    \/ \E r \in HttpSenderResend : HTTPinitSender(<<>>, FALSE, r)
    \/ \E layers \in SenderSnapshots, t \in SenderTimes : HTTPhandleState(HTimeline(layers, t))
    \/ \E i \in DOMAIN queue : HTTPSenderFire(i)
    \/ \E i \in DOMAIN queue : HTTPSenderFireRemoved(i)
    \/ \E r \in BagToSet(sender.reqs) : HTTPSenderResponse(r)
    \/ \E r \in BagToSet(sender.reqs), code \in {"ECONNRESET", "none"} : HTTPSenderError(r, code)
    \/ \E r \in BagToSet(sender.reqs) : HTTPSenderResend(r)
    \/ \E t \in SenderTimes : Tick(t)

SpecSender == SenderSpecInit /\ [][SenderNext]_vars

\* makeReady before any queued command is due.
MakeReadyNext ==
    \/ \E c \in HttpMakeReadyLists, d \in BOOLEAN, r \in HttpSenderResend :
          HTTPinitSender(c, d, r)
    \/ \E ok \in BOOLEAN : HTTPmakeReady(ok)
    \/ \E layers \in HttpSnapshots, t \in SenderTimes : HTTPhandleState(HTimeline(layers, t))
    \/ \E r \in BagToSet(sender.reqs) : HTTPSenderResponse(r)
    \/ \E r \in BagToSet(sender.reqs), code \in {"ECONNRESET", "none"} : HTTPSenderError(r, code)
    \/ \E r \in BagToSet(sender.reqs) : HTTPSenderResend(r)

\* The device as constructed, or after handleState of a snapshot for time 1000.
MakeReadySpecInit ==
    /\ dev = "http"
    /\ initialized = TRUE
    /\ now = 0
    /\ \E T \in {HTimeline(LayersOf(Some(o4), Some(o2)), 1000)} :
          \/ states = {} /\ queue = <<>>
          \/ /\ states = setState({}, T, T.time)
             /\ queue = HTTPQueueAfterHandleState(<<>>, HTTPEmptyState, T, T.time)
    /\ running = EmptyBag
    /\ activeLayers = {}
    /\ nOps = 0
    /\ lastOp = NoOp
    /\ din = NoInput
    /\ dout = NoOutput
    /\ ExecInit

SpecMakeReady == MakeReadySpecInit /\ [][MakeReadyNext]_vars

---------------------------------------------------------------------------
(* The Quantel executor: the commands cmdRun one after the other on a port *)

ManagerInit ==
    /\ dev = "quantel"
    /\ DevInit
    /\ din = NoInput
    /\ dout = NoOutput
    /\ ExecInit

ManagerNext ==
    \/ \E p \in MgrPorts, c \in MgrChannels, r \in {None, Some(0)},
          f \in MgrFailAt("setupPort") :
          MgrSetupPort(p, c, r, f)
    \/ \E p \in MgrPorts, f \in MgrFailAt("releasePort"), st \in MgrFailStatus :
          MgrReleasePort(p, f, st)
    \/ \E p \in MgrPorts, c \in MgrClips, t \in MgrTimes, r \in MgrResps,
          f \in MgrFailAt("loadClipFragments") :
          MgrLoadClipFragments(p, c, t, r, f)
    \/ \E p \in MgrPorts, c \in MgrPlayedClips, m \in MgrModes, t \in MgrTimes,
          f \in MgrFailAt("playClip") :
          MgrPlayClip(p, c, m, t, f)
    \/ \E p \in MgrPorts, c \in MgrPlayedClips, m \in MgrModes, t \in MgrTimes,
          f \in MgrFailAt("pauseClip") :
          MgrPauseClip(p, c, m, t, f)
    \/ \E p \in MgrPorts, f \in MgrFailAt("clearClip") : MgrClearClip(p, f)
    \/ \E p \in MgrPorts : MgrUnsupported(p)
    \/ MgrSettles
    \/ \E title \in {"A"} : CacheExpires(title)

SpecManager == ManagerInit /\ [][ManagerNext]_vars

---------------------------------------------------------------------------
(* The HTTP command receiver: one command and its resends *)

RetryInit ==
    /\ dev = "http"
    /\ DevInit
    /\ din = NoInput
    /\ dout = NoOutput
    /\ ExecInit

RetryNext ==
    \/ \E r \in HttpResendOptions : HTTPinit(r)
    \/ \E c \in HttpContents, l \in {"L1", "L2"} : HTTPCallbackSends(c, l)
    \/ \E c \in HttpContents : HTTPmakeReadySends(c)
    \/ \E sc \in HttpStatusCodes : HTTPResponse(sc)
    \/ \E code \in HttpErrorCodes, e \in HttpElapsed : HTTPRequestError(code, e)
    \/ HTTPResend
    \/ \E c \in HttpContents : HTTPLayerChanges(c)

SpecRetry == RetryInit /\ [][RetryNext]_vars

---------------------------------------------------------------------------
(* Properties of the device state machine (Spec) *)

\* A step that starts the callback of entry i of the queue.
StartsCallback(i) == HTTPFireSend(i) \/ HTTPFireRemoved(i) \/ QuantelFire(i)

\* C1: in the IN_ORDER queues of both devices, the callback of an entry with
\* a key starts only when no entry of the same key with an earlier time is
\* still queued and no callback of the same key is unsettled: of two entries
\* of one key the earlier has completed before the later starts.
C1_InOrderPerKey ==
    [][\A i \in DOMAIN queue :
          (StartsCallback(i) /\ IsSome(queue[i].key)) =>
             /\ \A j \in DOMAIN queue :
                   (j # i /\ queue[j].key = queue[i].key) => queue[j].time >= queue[i].time
             /\ \A r \in BagToSet(running) : r.key # queue[i].key]_vars

\* A callback runs while a later entry of its key is due and waits in the queue.
C1_Witness ==
    \E r \in BagToSet(running) : \E j \in DOMAIN queue :
        /\ IsSome(r.key)
        /\ queue[j].key = r.key
        /\ r.time < queue[j].time
        /\ queue[j].time <= now

\* C2: when prepareForHandleState(t) of the HTTP device returns, no entry with
\* time >= t is left in the queue, whatever preceded the call, and the running
\* callbacks are the ones that ran before it.
C2_PrepareClearsFromTime ==
    [][\A t \in SnapTimes :
          HTTPprepareForHandleState(t) =>
             /\ \A j \in DOMAIN queue' : queue'[j].time < t
             /\ running' = running]_vars

\* prepareForHandleState removed entries while a callback was running.
C2_Witness ==
    /\ dev = "http"
    /\ lastOp.op = "prepareForHandleState"
    /\ lastOp.removed > 0
    /\ running # EmptyBag

\* The one entry of the store, when it holds one.
FirstStored == CHOOSE e \in states : TRUE

\* The device has seen handleState(T1) and no other facade operation, and t2
\* is later than the time of T1.
SecondHandleState(t2) ==
    /\ nOps = 1
    /\ Cardinality(states) = 1
    /\ FirstStored.time < t2

CountFrom(q, t) == Cardinality({j \in DOMAIN q : q[j].time >= t})
CountCommandsFrom(commands, t) ==
    Cardinality({k \in DOMAIN commands : commands[k].time >= t})

\* C3 as stated: after handleState(T1); handleState(T2) with t1 < t2 the queue
\* holds as many entries with time >= t2 as the diff of the two projected
\* states has commands, on both devices.
C3_CountEqualsDiffLength ==
    [][/\ \A layers \in HttpSnapshots, t \in SnapTimes :
             (SecondHandleState(t) /\ HTTPhandleState(HTimeline(layers, t))) =>
                CountFrom(queue', t)
                  = Len(HTTPSend_diffStates(FirstStored.state,
                                            convertStateToHttpSend(HTimeline(layers, t))))
       /\ \A sn \in QuantelSnapshots, t \in SnapTimes :
             (SecondHandleState(t)
                /\ QuantelhandleState([time |-> t, layers |-> sn[1]], sn[2])) =>
                CountFrom(queue', t)
                  = Len(Quantel_diffStates(FirstStored.state,
                          convertStateToQuantel([time |-> t, layers |-> sn[1]],
                                                sn[2]).state, t))]_vars

\* C3 amended: after handleState(T1); handleState(T2) with t1 < t2 the queue
\* holds as many entries with time >= t2 as the diff has commands whose time
\* is >= t2: all of them on the HTTP device, and on the Quantel device the
\* commands at the transition time and the preparation commands whose time
\* was clamped to it.
C3_CountEqualsDiffFromT2 ==
    [][/\ \A layers \in HttpSnapshots, t \in SnapTimes :
             (SecondHandleState(t) /\ HTTPhandleState(HTimeline(layers, t))) =>
                CountFrom(queue', t)
                  = Len(HTTPSend_diffStates(FirstStored.state,
                                            convertStateToHttpSend(HTimeline(layers, t))))
       /\ \A sn \in QuantelSnapshots, t \in SnapTimes :
             (SecondHandleState(t)
                /\ QuantelhandleState([time |-> t, layers |-> sn[1]], sn[2])) =>
                CountFrom(queue', t)
                  = CountCommandsFrom(
                      Quantel_diffStates(FirstStored.state,
                          convertStateToQuantel([time |-> t, layers |-> sn[1]],
                                                sn[2]).state, t), t)]_vars

\* The second handleState of the Quantel device queued commands before and at
\* its snapshot time.
C3_Witness ==
    /\ dev = "quantel"
    /\ nOps = 2
    /\ lastOp.op = "handleState"
    /\ Cardinality(states) = 2
    /\ \A e \in states : e.time <= lastOp.t
    /\ CountFrom(queue, lastOp.t) > 0
    /\ lastOp.added > CountFrom(queue, lastOp.t)

\* The commands that prepare: they are given prepareTime.
IsPrepareAhead(cmd) == cmd.type \in {"setupPort", "loadClipFragments", "releasePort"}

\* The entries handleState of the Quantel device appends in this step.
QuantelAppended(t) ==
    SubSeq(queue',
           Len(clearQueueNowAndAfter(queue,
                  QuantelPreviousStateTime(now, [time |-> t]))) + 1,
           Len(queue'))

\* The old state handleState of the Quantel device reads from the store.
QuantelOldStateAt(t) ==
    QuantelOldState(states, QuantelPreviousStateTime(now, [time |-> t]))

\* C9 as stated: every preparation command handleState queues has a time that
\* is not before the time of the old state read from the store.
C9_PrepareNotBeforeOldState ==
    [][\A sn \in QuantelSnapshots, t \in SnapTimes :
          QuantelhandleState([time |-> t, layers |-> sn[1]], sn[2]) =>
             \A k \in DOMAIN QuantelAppended(t) :
                IsPrepareAhead(QuantelAppended(t)[k].cmd) =>
                   QuantelAppended(t)[k].time >= QuantelOldStateAt(t).time]_vars

\* C9 amended: a preparation command is not before the time of the old state
\* when the snapshot is not older than the old state; when the snapshot is
\* older, the command is at the snapshot time.
C9_PrepareNotBeforeOldStateOrSnapshot ==
    [][\A sn \in QuantelSnapshots, t \in SnapTimes :
          QuantelhandleState([time |-> t, layers |-> sn[1]], sn[2]) =>
             \A k \in DOMAIN QuantelAppended(t) :
                IsPrepareAhead(QuantelAppended(t)[k].cmd) =>
                   IF t >= QuantelOldStateAt(t).time
                   THEN QuantelAppended(t)[k].time >= QuantelOldStateAt(t).time
                   ELSE QuantelAppended(t)[k].time = t]_vars

\* handleState queued a preparation command ahead of its snapshot time and
\* after the state it found in the store.
C9_Witness ==
    /\ dev = "quantel"
    /\ lastOp.op = "handleState"
    /\ Cardinality(states) = 2
    /\ \E j \in DOMAIN queue : \E e \in states :
          /\ IsPrepareAhead(queue[j].cmd)
          /\ e.time < lastOp.t
          /\ e.time < queue[j].time
          /\ queue[j].time < lastOp.t

---------------------------------------------------------------------------
(* Properties of the differs (SpecDiff) *)

\* C4: the diff of a projected state with itself has no commands, in the
\* HTTP differ and in the Quantel differ.
C4_SelfDiffEmpty == dout.done => dout.self = <<>>

\* The Quantel differ ran on a state of itself that holds a port with a clip.
C4_Witness ==
    /\ dout.done
    /\ din.kind = "quantel"
    /\ \E p \in DOMAIN din.new.port : IsSome(din.new.port[p].val.clip)

\* The command the HTTP differ owes a layer: its name and its content, or None.
HttpExpected(l) ==
    LET inOld == Has(din.old.layers, l)
        inNew == Has(din.new.layers, l)
    IN  IF inNew /\ ~inOld THEN Some(<<"added", Lookup(din.new.layers, l).content>>)
        ELSE IF inOld /\ ~inNew THEN Some(<<"removed", Lookup(din.old.layers, l).content>>)
        ELSE IF inOld /\ inNew
                /\ Lookup(din.old.layers, l).content # Lookup(din.new.layers, l).content
             THEN Some(<<"changed", Lookup(din.new.layers, l).content>>)
        ELSE None

HttpCommandsOf(l) == {i \in DOMAIN dout.commands : dout.commands[i].layer = l}

\* C5: the HTTP differ emits one command for each layer that differs, 'added',
\* 'changed' or 'removed', and none for a layer with equal content; handleState
\* queues each command at the snapshot time under the key content.queueId.
C5_OneCommandPerDifferingLayer ==
    (dout.done /\ din.kind = "http") =>
        /\ \A l \in HttpDiffLayers :
              IF IsSome(HttpExpected(l))
              THEN /\ Cardinality(HttpCommandsOf(l)) = 1
                   /\ \A i \in HttpCommandsOf(l) :
                         /\ dout.commands[i].commandName = HttpExpected(l)[1][1]
                         /\ dout.commands[i].content = HttpExpected(l)[1][2]
              ELSE HttpCommandsOf(l) = {}
        /\ Len(dout.queued) = Len(dout.commands)
        /\ \A i \in DOMAIN dout.queued :
              /\ dout.queued[i].cmd = dout.commands[i]
              /\ dout.queued[i].time = din.new.time
              /\ dout.queued[i].key = dout.commands[i].content.queueId

\* One diff holds an added, a changed and a removed layer, one command queued
\* with a key and one without.
C5_Witness ==
    /\ dout.done
    /\ din.kind = "http"
    /\ \A n \in {"added", "changed", "removed"} :
          \E i \in DOMAIN dout.commands : dout.commands[i].commandName = n
    /\ \E i \in DOMAIN dout.queued : dout.queued[i].key = None
    /\ \E i \in DOMAIN dout.queued : dout.queued[i].key = Some("q1")

\* C6: the commands of the HTTP differ are in the order of their
\* temporalPriority (0 when missing), those of equal priority in the order of
\* their layer names, and the list is the same when the layers are iterated in
\* the reverse order.
C6_DeterministicOrder ==
    (dout.done /\ din.kind = "http") =>
        /\ \A i, j \in DOMAIN dout.commands :
              i < j =>
                 /\ temporalPriorityOf(dout.commands[i]) <= temporalPriorityOf(dout.commands[j])
                 /\ temporalPriorityOf(dout.commands[i]) = temporalPriorityOf(dout.commands[j])
                       => LayerRank(dout.commands[i].layer) <= LayerRank(dout.commands[j].layer)
        /\ dout.alt = dout.commands

\* Three commands: the priority puts a later layer first, and two commands of
\* equal priority follow their layer names.
C6_Witness ==
    /\ dout.done
    /\ din.kind = "http"
    /\ Len(dout.commands) = 3
    /\ \E i, j \in DOMAIN dout.commands :
          /\ i < j
          /\ temporalPriorityOf(dout.commands[i]) < temporalPriorityOf(dout.commands[j])
          /\ LayerRank(dout.commands[i].layer) > LayerRank(dout.commands[j].layer)
    /\ \E i, j \in DOMAIN dout.commands :
          /\ i < j
          /\ temporalPriorityOf(dout.commands[i]) = temporalPriorityOf(dout.commands[j])

\* C7: in the Quantel differ every loadClipFragments command is followed by
\* the playClip or pauseClip command of its port, and its time is not after
\* the time of that command.
C7_LoadNotAfterPlay ==
    (dout.done /\ din.kind = "quantel") =>
        \A i \in DOMAIN dout.commands :
            dout.commands[i].type = "loadClipFragments" =>
                /\ i + 1 \in DOMAIN dout.commands
                /\ dout.commands[i + 1].type \in {"playClip", "pauseClip"}
                /\ dout.commands[i + 1].portId = dout.commands[i].portId
                /\ dout.commands[i + 1].time = din.time
                /\ dout.commands[i].time <= dout.commands[i + 1].time

\* A load is queued ahead of its play, from an old state that is not empty.
C7_Witness ==
    /\ dout.done
    /\ din.kind = "quantel"
    /\ din.old.port # <<>>
    /\ \E i \in DOMAIN dout.commands :
          /\ dout.commands[i].type = "loadClipFragments"
          /\ dout.commands[i].time < din.time

\* C8 as stated: setupPort and loadClipFragments are at
\* max(oldState.time + 50, time - 1000), and playClip, pauseClip and clearClip
\* are at the transition time.
C8_PrepareTimeIsMax ==
    (dout.done /\ din.kind = "quantel") =>
        \A i \in DOMAIN dout.commands :
            /\ dout.commands[i].type \in {"setupPort", "loadClipFragments"} =>
                  dout.commands[i].time
                    = Max(din.old.time + PREPARE_TIME_WAIT, din.time - IDEAL_PREPARE_TIME)
            /\ dout.commands[i].type \in {"playClip", "pauseClip", "clearClip"} =>
                  dout.commands[i].time = din.time

\* C8 amended: setupPort and loadClipFragments are at the earlier of the
\* transition time and max(oldState.time + 50, time - 1000), and playClip,
\* pauseClip and clearClip are at the transition time.
C8_PrepareTimeIsClampedMax ==
    (dout.done /\ din.kind = "quantel") =>
        \A i \in DOMAIN dout.commands :
            /\ dout.commands[i].type \in {"setupPort", "loadClipFragments"} =>
                  dout.commands[i].time
                    = (LET m == Max(din.old.time + PREPARE_TIME_WAIT,
                                    din.time - IDEAL_PREPARE_TIME)
                       IN  IF m < din.time THEN m ELSE din.time)
            /\ dout.commands[i].type \in {"playClip", "pauseClip", "clearClip"} =>
                  dout.commands[i].time = din.time

\* The old state is less than 50 before the transition, and the diff holds a
\* preparation command and a transition command.
C8_Witness ==
    /\ dout.done
    /\ din.kind = "quantel"
    /\ din.old.time < din.time
    /\ din.old.time + PREPARE_TIME_WAIT > din.time
    /\ \E i \in DOMAIN dout.commands :
          dout.commands[i].type \in {"setupPort", "loadClipFragments"}
    /\ \E i \in DOMAIN dout.commands :
          dout.commands[i].type \in {"playClip", "pauseClip", "clearClip"}

\* The commands of the diff for one port.
QuantelCommandsOf(portId) ==
    LET ForPort(c) == c.portId = portId IN SelectSeq(dout.commands, ForPort)

\* C10: from the empty old state at time 0 and a transition time >= 1050, a
\* port of the new state that is bound to a channel and holds a clip gets
\* setupPort and loadClipFragments, both not after time - 1000, and then
\* playClip (pauseClip when the clip is not playing) at the transition time.
C10_SetupLoadPlay ==
    (dout.done /\ din.kind = "quantel" /\ din.old = QuantelEmptyState
       /\ din.time >= IDEAL_PREPARE_TIME + PREPARE_TIME_WAIT) =>
        \A p \in DOMAIN din.new.port :
            (IsSome(din.new.port[p].val.clip) /\ Len(din.new.port[p].val.channels) > 0) =>
                LET cs == QuantelCommandsOf(din.new.port[p].key)
                IN  /\ Len(cs) = 3
                    /\ cs[1].type = "setupPort"
                    /\ cs[1].time <= din.time - IDEAL_PREPARE_TIME
                    /\ cs[2].type = "loadClipFragments"
                    /\ cs[2].time <= din.time - IDEAL_PREPARE_TIME
                    /\ cs[3].type = (IF din.new.port[p].val.clip[1].playing
                                     THEN "playClip" ELSE "pauseClip")
                    /\ cs[3].time = din.time

\* The setupPort commands of the diff for one port.
QuantelSetupsOf(portId) ==
    {i \in DOMAIN dout.commands :
        dout.commands[i].type = "setupPort" /\ dout.commands[i].portId = portId}

\* C11: every port of the new state that the old state does not hold, or
\* holds with other channels, gets one setupPort command at the prepare time
\* with the first channel of the port, whatever the channel id (0 included);
\* every port of the old state that the new state does not hold gets a
\* releasePort command.
C11_SetupForEveryChannel ==
    (dout.done /\ din.kind = "quantel") =>
        /\ \A p \in DOMAIN din.new.port :
              (~Has(din.old.port, din.new.port[p].key)
               \/ Lookup(din.old.port, din.new.port[p].key).channels
                    # din.new.port[p].val.channels) =>
                 /\ Cardinality(QuantelSetupsOf(din.new.port[p].key)) = 1
                 /\ \A i \in QuantelSetupsOf(din.new.port[p].key) :
                       /\ dout.commands[i].channel = din.new.port[p].val.channels[1]
                       /\ \A c \in DOMAIN din.new.port[p].val.channels :
                             dout.commands[i].channel <= din.new.port[p].val.channels[c]
                       /\ dout.commands[i].time
                            = Min(din.time, Max(din.time - IDEAL_PREPARE_TIME,
                                                din.old.time + PREPARE_TIME_WAIT))
        /\ \A q \in DOMAIN din.old.port :
              ~Has(din.new.port, din.old.port[q].key) =>
                 \E i \in DOMAIN dout.commands :
                    /\ dout.commands[i].type = "releasePort"
                    /\ dout.commands[i].portId = din.old.port[q].key

---------------------------------------------------------------------------
(* Properties of the Quantel executor (SpecManager) *)

\* The command that ran last is of this type.
Ran(type) == cmdRun.n > 0 /\ cmdRun.cmd.type = type

\* The tracked entry of the port of the command that ran last, after it.
TrackedAfter == qm.port[cmdRun.cmd.portId]

\* The protocol calls of the command that ran last, by name, and the indexes
\* of its calls of one name.
CallOps == [i \in DOMAIN cmdRun.calls |-> cmdRun.calls[i].op]
CallsOf(op) == {i \in DOMAIN cmdRun.calls : cmdRun.calls[i].op = op}
SomeCallFailed == \E i \in DOMAIN cmdRun.calls : cmdRun.calls[i].failed

\* C12: when a protocol call of a command has failed, the tracked entry of
\* the port is the one from before the command started (a releasePort that
\* is answered 404 aside, which drops the entry).
C12_TrackedUnchangedOnFailure ==
    (cmdRun.n > 0 /\ SomeCallFailed
       /\ ~(cmdRun.cmd.type = "releasePort" /\ cmdRun.status = 404)) =>
        TrackedAfter = cmdRun.before

\* C13: after a playClip that succeeded and a later clearClip that succeeded,
\* the tracked entry has no loadedFragments, no jumpOffset and no
\* scheduledStop.
C13_ClearAfterPlay ==
    (Ran("clearClip") /\ cmdRun.ok /\ cmdRun.played) =>
        /\ IsSome(TrackedAfter)
        /\ TrackedAfter[1].loadedFragments = <<>>
        /\ TrackedAfter[1].jumpOffset = None
        /\ TrackedAfter[1].scheduledStop = None

\* clearClip succeeded after a playClip, on a port that had fragments, a
\* prepared jump and a scheduled stop.
C13_Witness ==
    /\ Ran("clearClip")
    /\ cmdRun.ok
    /\ cmdRun.played
    /\ cmdRun.before[1].loadedFragments # <<>>
    /\ cmdRun.before[1].jumpOffset # None
    /\ cmdRun.before[1].scheduledStop # None

\* C14: setupPort on a port that is tracked with the channel of the command
\* makes no protocol call and leaves the entry as it is; otherwise, when it
\* succeeds, it has called getPort, releasePort when the port existed, and
\* createPort with the channel, and the entry is the initial entry of the
\* channel.
C14_SetupCollapse ==
    Ran("setupPort") =>
        IF IsSome(cmdRun.before) /\ cmdRun.before[1].channel = cmdRun.cmd.channel
        THEN /\ cmdRun.calls = <<>>
             /\ cmdRun.ok
             /\ TrackedAfter = cmdRun.before
        ELSE cmdRun.ok =>
             /\ CallOps = (IF IsSome(cmdRun.resp.remotePort)
                           THEN <<"getPort", "releasePort", "createPort">>
                           ELSE <<"getPort", "createPort">>)
             /\ cmdRun.calls[Len(cmdRun.calls)].arg = <<cmdRun.cmd.channel>>
             /\ TrackedAfter =
                  Some([channel |-> cmdRun.cmd.channel, loadedFragments |-> <<>>,
                        offset |-> 0, playing |-> FALSE, jumpOffset |-> None,
                        scheduledStop |-> None])

\* setupPort with the tracked channel ran on a port with fragments and a
\* prepared jump.
C14_Witness ==
    /\ Ran("setupPort")
    /\ IsSome(cmdRun.before)
    /\ cmdRun.before[1].channel = cmdRun.cmd.channel
    /\ cmdRun.before[1].loadedFragments # <<>>
    /\ cmdRun.before[1].jumpOffset # None

\* The clip id and the points of the loadClipFragments command that ran last.
RanClipId == ClipIdOf(cmdRun.cmd.clip.title)
RanInPoint ==
    IF cmdRun.cmd.clip.inPoint = None \/ cmdRun.cmd.clip.inPoint = Some(0) THEN 0
    ELSE Round(cmdRun.cmd.clip.inPoint[1] * DEFAULT_FPS, 1000)
\* (the clips of the commands have no length: the clip runs to its last frame)
RanOutPoint == cmdRun.resp.clipFrames

\* The tracked port held the fragments of the clip with the same points
\* before the command.
RanReuses ==
    \E i \in DOMAIN cmdRun.before[1].loadedFragments :
        /\ cmdRun.before[1].loadedFragments[i].key = RanClipId
        /\ cmdRun.before[1].loadedFragments[i].val.inPoint = RanInPoint
        /\ cmdRun.before[1].loadedFragments[i].val.outPoint = RanOutPoint

\* The portInPoint of the clip on the tracked port after the command.
RanPortInPoint == Lookup(TrackedAfter[1].loadedFragments, RanClipId).portInPoint

\* C15: loadClipFragments on a port that holds the fragments of the clip
\* with the same in and out point calls neither getClipFragments nor
\* loadFragmentsOntoPort and works with the recorded portInPoint; otherwise,
\* when it succeeds, it has loaded the fragments at the endOfData of the port
\* and recorded portInPoint, portOutPoint, inPoint and outPoint for the clip.
C15_LoadReuses ==
    (Ran("loadClipFragments") /\ IsSome(cmdRun.before)) =>
        IF RanReuses
        THEN /\ CallsOf("getClipFragments") = {}
             /\ CallsOf("loadFragmentsOntoPort") = {}
             /\ TrackedAfter[1].loadedFragments = cmdRun.before[1].loadedFragments
             /\ \A i \in CallsOf("portPrepareJump") :
                   cmdRun.calls[i].arg
                     = <<Lookup(cmdRun.before[1].loadedFragments, RanClipId).portInPoint>>
        ELSE cmdRun.ok =>
             /\ Cardinality(CallsOf("getClipFragments")) = 1
             /\ \E i \in CallsOf("loadFragmentsOntoPort") :
                   cmdRun.calls[i].arg = <<cmdRun.resp.endOfData>>
             /\ Lookup(TrackedAfter[1].loadedFragments, RanClipId)
                  = [portInPoint |-> cmdRun.resp.endOfData,
                     portOutPoint |-> cmdRun.resp.endOfData + cmdRun.resp.finish - 1,
                     inPoint |-> RanInPoint, outPoint |-> RanOutPoint]

\* A load was reused, to prepare a jump, on a port whose endOfData has moved
\* on since the fragments were loaded.
C15_Witness ==
    /\ Ran("loadClipFragments")
    /\ cmdRun.ok
    /\ IsSome(cmdRun.before)
    /\ RanReuses
    /\ CallsOf("portPrepareJump") # {}
    /\ cmdRun.resp.endOfData # RanPortInPoint

\* C16 as stated: loadClipFragments that succeeds with timeOfPlay - now > 0
\* has scheduled a stop at portInPoint - 1 and prepared a jump to portInPoint,
\* and jumpOffset is portInPoint; with timeOfPlay - now <= 0 it has done
\* neither.
C16_LoadSchedulesStop ==
    (Ran("loadClipFragments") /\ cmdRun.ok) =>
        IF cmdRun.cmd.timeOfPlay - cmdRun.time > 0
        THEN /\ \E i \in CallsOf("portStop") : cmdRun.calls[i].arg = <<RanPortInPoint - 1>>
             /\ \E i \in CallsOf("portPrepareJump") : cmdRun.calls[i].arg = <<RanPortInPoint>>
             /\ TrackedAfter[1].jumpOffset = Some(RanPortInPoint)
        ELSE /\ CallsOf("portStop") = {}
             /\ CallsOf("portPrepareJump") = {}

\* C16 amended: loadClipFragments that succeeds with timeOfPlay - now > 0 has
\* prepared a jump to portInPoint, and jumpOffset is portInPoint; it has
\* scheduled a stop at portInPoint - 1 exactly when portInPoint > 0 and no
\* stop was scheduled on the tracked port; with timeOfPlay - now <= 0 it has
\* done neither, and jumpOffset and scheduledStop are as before.
C16_LoadSchedulesStopOnUsedPort ==
    (Ran("loadClipFragments") /\ cmdRun.ok) =>
        IF cmdRun.cmd.timeOfPlay - cmdRun.time > 0
        THEN /\ \E i \in CallsOf("portPrepareJump") : cmdRun.calls[i].arg = <<RanPortInPoint>>
             /\ TrackedAfter[1].jumpOffset = Some(RanPortInPoint)
             /\ IF RanPortInPoint > 0 /\ cmdRun.before[1].scheduledStop = None
                THEN /\ \E i \in CallsOf("portStop") :
                           cmdRun.calls[i].arg = <<RanPortInPoint - 1>>
                     /\ TrackedAfter[1].scheduledStop = Some(RanPortInPoint - 1)
                ELSE /\ CallsOf("portStop") = {}
                     /\ TrackedAfter[1].scheduledStop = cmdRun.before[1].scheduledStop
        ELSE /\ CallsOf("portStop") = {}
             /\ CallsOf("portPrepareJump") = {}
             /\ TrackedAfter[1].jumpOffset = cmdRun.before[1].jumpOffset
             /\ TrackedAfter[1].scheduledStop = cmdRun.before[1].scheduledStop

\* A load ahead of the time of play, onto a port that holds frames and has no
\* stop scheduled.
C16_Witness ==
    /\ Ran("loadClipFragments")
    /\ cmdRun.ok
    /\ cmdRun.cmd.timeOfPlay - cmdRun.time > 0
    /\ RanPortInPoint > 0
    /\ cmdRun.before[1].scheduledStop = None
    /\ CallsOf("portStop") # {}

\* The offset the playClip or pauseClip command that ran last wanted.
RanJumpToOffset ==
    LET loaded == Lookup(cmdRun.before[1].loadedFragments, RanClipId)
    IN  loaded.portInPoint
        + (Max(0, cmdRun.time - cmdRun.cmd.clip.playTime[1]) * DEFAULT_FPS) \div 1000

\* C17: a playClip or pauseClip that succeeds on a port whose tracked
\* jumpOffset (any value, 0 included) is more than 5 frames from the offset
\* it wants has prepared a new jump or made a hard jump to that offset, and
\* the tracked offset is within 5 frames of it.
C17_StaleJumpInvalidated ==
    ((Ran("playClip") \/ Ran("pauseClip")) /\ cmdRun.ok
       /\ cmdRun.before[1].jumpOffset # None
       /\ Abs(cmdRun.before[1].jumpOffset[1] - RanJumpToOffset) > JUMP_ERROR_MARGIN) =>
        /\ \E i \in CallsOf("portPrepareJump") \cup CallsOf("portHardJump") :
              cmdRun.calls[i].arg = <<RanJumpToOffset>>
        /\ Abs(TrackedAfter[1].offset - RanJumpToOffset) <= JUMP_ERROR_MARGIN

\* The portOutPoint of the clip of the playClip command that ran last.
RanPortOutPoint == Lookup(cmdRun.before[1].loadedFragments, RanClipId).portOutPoint

\* C18: a playClip that succeeds has called, in this order and last, the
\* jump (portTriggerJump or portHardJump), portPlay and portStop at the
\* portOutPoint of the clip, whatever that portOutPoint is; the tracked entry
\* is playing with scheduledStop = portOutPoint.
C18_PlayThenStopAtOutPoint ==
    (Ran("playClip") /\ cmdRun.ok) =>
        /\ Len(cmdRun.calls) >= 3
        /\ CallOps[Len(cmdRun.calls) - 2] \in {"portTriggerJump", "portHardJump"}
        /\ CallOps[Len(cmdRun.calls) - 1] = "portPlay"
        /\ CallOps[Len(cmdRun.calls)] = "portStop"
        /\ cmdRun.calls[Len(cmdRun.calls)].arg = <<RanPortOutPoint>>
        /\ TrackedAfter[1].playing
        /\ TrackedAfter[1].scheduledStop = Some(RanPortOutPoint)

\* C19: releasePort whose releasePort call succeeds, or fails with status
\* 404, completes without error and drops the tracked entry; with any other
\* failure the command fails and the tracked entry is kept.
C19_ReleaseDropsEntry ==
    Ran("releasePort") =>
        /\ CallOps = <<"releasePort">>
        /\ IF ~SomeCallFailed \/ cmdRun.status = 404
           THEN cmdRun.ok /\ TrackedAfter = None
           ELSE ~cmdRun.ok /\ TrackedAfter = cmdRun.before

\* A release answered 404 dropped a tracked entry.
C19_Witness ==
    /\ Ran("releasePort")
    /\ SomeCallFailed
    /\ cmdRun.status = 404
    /\ IsSome(cmdRun.before)
    /\ TrackedAfter = None

---------------------------------------------------------------------------
(* Properties of the HTTP command receiver (SpecRetry) *)

C25_RefireIsDropped == http.refired => http.requests = 0

\* C25 amended: the callback of a command stores the payload as the
\* fingerprint of the layer and the request is issued, also when the
\* fingerprint was the same payload before; when the command receiver is
\* called again for a command of a layer, the request is issued exactly when
\* the fingerprint of the layer is still the payload of the command, and the
\* command is dropped when the fingerprint has changed or is gone.
C25_SentIfStillActive ==
    [][/\ \A c \in HttpContents, l \in {"L1", "L2"} :
            HTTPCallbackSends(c, l) =>
                /\ \E entry \in activeLayers' :
                      entry.key = l /\ entry.val = Stringify(c)
                /\ http'.phase = "request"
                /\ http'.requests = 1
       /\ (HTTPResend /\ http.layer # None) =>
            (http'.phase = "request" <=>
                \E entry \in activeLayers :
                    entry.key = http.layer[1] /\ entry.val = Stringify(http.cmd))
      ]_vars

\* The request of a command is out that was fired on a layer whose
\* fingerprint it already was.
C25_Witness ==
    /\ http.refired
    /\ http.phase = "request"
    /\ http.requests = 1

---------------------------------------------------------------------------
(* Failures of the commands of the Quantel executor (SpecManager) *)

RanWithoutPort ==
    /\ cmdRun.n > 0
    /\ cmdRun.cmd.type \in {"loadClipFragments", "playClip", "pauseClip", "clearClip"}
    /\ cmdRun.before = None

\* C28 as stated: a loadClipFragments, playClip, pauseClip or clearClip
\* command on a port that is not tracked has emitted the error signal, has
\* made no protocol call and has left the tracked state as it was.
C28_MissingPortEmitsError ==
    RanWithoutPort =>
        /\ "error" \in cmdRun.signals
        /\ cmdRun.calls = <<>>
        /\ TrackedAfter = None

\* C28 amended: such a command has emitted commandError and not error, has
\* made no protocol call and has left the tracked state as it was: the port
\* is still not tracked.
C28_MissingPortEmitsCommandError ==
    RanWithoutPort =>
        /\ "commandError" \in cmdRun.signals
        /\ "error" \notin cmdRun.signals
        /\ ~cmdRun.ok
        /\ cmdRun.calls = <<>>
        /\ TrackedAfter = None

\* A playClip ran on a port that was released after a clip had been loaded.
C28_Witness ==
    /\ RanWithoutPort
    /\ cmdRun.cmd.type = "playClip"
    /\ qm.clipId # {}

---------------------------------------------------------------------------
(* init of the Quantel device (SpecDevices) *)

\* init has just returned or thrown, and these are the options it was given.
InitCalledWith(options) ==
    /\ dev = "quantel"
    /\ lastOp.op = "init"
    /\ lastOp.options = options

AllFourOptions == {"gatewayUrl", "ISAUrl", "zoneId", "serverId"}

\* C30 as stated: init of the Quantel device leaves the gateway
\* uninitialized (it has thrown before connecting) whenever one of
\* gatewayUrl, ISAUrl, zoneId and serverId is missing, and initializes it
\* only when all four are given.
C30_InitNeedsAllFour ==
    \A options \in QuantelOptionSets :
        InitCalledWith(options) => (initialized <=> AllFourOptions \subseteq options)

\* C30 amended: init throws, and the gateway stays uninitialized, exactly when
\* gatewayUrl, ISAUrl or serverId is missing; without a zoneId it connects.
C30_InitNeedsThree ==
    \A options \in QuantelOptionSets :
        InitCalledWith(options) =>
            (initialized <=> {"gatewayUrl", "ISAUrl", "serverId"} \subseteq options)

\* init was given no zoneId, and the gateway is initialized.
C30_Witness ==
    /\ InitCalledWith({"gatewayUrl", "ISAUrl", "serverId"})
    /\ initialized

---------------------------------------------------------------------------
(* Layers without a mapping in handleState of the Quantel device (SpecDevices) *)

\* The snapshot holds an object on a layer that has no Quantel mapping.
HasUnmappedLayer(sn) == SkippedLayers([time |-> 0, layers |-> sn[1]], sn[2]) # {}

---------------------------------------------------------------------------
(* clearFuture of the three devices (SpecDevices) *)

\* clearFuture(t) of the device is the step taken.
ClearFutureStep(t) ==
    HTTPclearFuture(t) \/ QuantelclearFuture(t) \/ CasparclearFuture(t)

\* The entries of the timed queue at or before t, in their order.
QueuedUpTo(q, t) == LET UpTo(e) == e.time <= t IN SelectSeq(q, UpTo)

\* C26 as stated: after clearFuture(t) the timed queue holds the entries it
\* held with time <= t and no other, the scheduled-token queue of the
\* CasparCG device holds the tokens it held with time <= t and no other,
\* and the stored states are unchanged.
C26_ClearFutureRemovesLater ==
    [][\A t \in CasparTimes :
          ClearFutureStep(t) =>
              /\ queue' = QueuedUpTo(queue, t)
              /\ ccg'._queue = {q \in ccg._queue : q.time <= t}
              /\ states' = states]_vars

\* C26 amended: after clearFuture(t) the timed queue holds the entries it
\* held with time <= t and no other, and the stored states are unchanged.
\* The CasparCG device with scheduling sends a ScheduleRemoveCommand for
\* each token with time > t and for no other, and leaves the
\* scheduled-token queue as it is; a token leaves that queue when its
\* ScheduleRemoveCommand is answered, and stays when the command fails.
C26_ClearFutureSchedulesRemoval ==
    [][/\ \A t \in CasparTimes :
             ClearFutureStep(t) =>
                 /\ queue' = QueuedUpTo(queue, t)
                 /\ states' = states
                 /\ ccg'._queue = ccg._queue
                 /\ ccg'.sent = ccg.sent \cup
                       {CasparSent("ScheduleRemoveCommand", Some(q.token), q.command) :
                           q \in {e \in ccg._queue : ccg.useScheduling /\ e.time > t}}
       /\ \A c \in ccg.sent, ok \in BOOLEAN :
             (c.name = "ScheduleRemoveCommand" /\ CasparCommandSettles(c, ok)) =>
                 IF ok THEN \A q \in ccg'._queue : q.token # c.token[1]
                 ELSE ccg'._queue = ccg._queue]_vars

\* clearFuture of the CasparCG device with scheduling has returned: the
\* removal of a token after the time given is sent, and the token is still
\* in the scheduled-token queue.
C26_Witness ==
    /\ dev = "casparcg"
    /\ ccg.useScheduling
    /\ lastOp.op = "clearFuture"
    /\ \E q \in ccg._queue :
          /\ q.time > lastOp.t
          /\ CasparSent("ScheduleRemoveCommand", Some(q.token), q.command) \in ccg.sent

---------------------------------------------------------------------------
(* Status and connection of the three devices (SpecDevices) *)

\* C29 as stated: the status of the device is BAD exactly when its connected
\* property is false, and GOOD or WARNING when it is true.
C29_BadIffDisconnected ==
    /\ getStatus = "BAD" <=> ~connected
    /\ connected => getStatus \in {"GOOD", "WARNING"}

\* C29 amended: the status of the Quantel device and of the CasparCG device
\* is BAD exactly when the connected property is false and GOOD otherwise;
\* the HTTP device is never connected and its status is always GOOD. No
\* device reports WARNING.
C29_BadIffDisconnectedUnlessHTTP ==
    /\ dev \in {"quantel", "casparcg"} =>
          /\ getStatus = "BAD" <=> ~connected
          /\ getStatus = "GOOD" <=> connected
    /\ dev = "http" => (getStatus = "GOOD" /\ ~connected)

\* The CasparCG device has lost its connection after commands were sent: its
\* status is BAD.
C29_Witness ==
    /\ dev = "casparcg"
    /\ ccg.hasCcg
    /\ ccg.sent # {}
    /\ ~connected
    /\ getStatus = "BAD"

---------------------------------------------------------------------------
(* handleState before init (SpecDevices) *)

\* C34: as long as the Quantel or the CasparCG device is not initialized,
\* whatever snapshots handleState was given, the timed queue and the
\* scheduled-token queue are empty, no state is stored and no callback
\* runs; a handleState that was ignored with the warning found the device
\* not initialized.
C34_IgnoredBeforeInit ==
    /\ (dev \in {"quantel", "casparcg"} /\ ~initialized) =>
          /\ queue = <<>>
          /\ running = EmptyBag
          /\ states = {}
          /\ ccg._queue = {}
    /\ lastOp.op = "handleStateIgnored" => ~initialized

\* handleState of the CasparCG device was ignored after an init of which
\* info() failed, at a time after now.
C34_Witness ==
    /\ dev = "casparcg"
    /\ ccg.hasCcg
    /\ ~initialized
    /\ lastOp.op = "handleStateIgnored"
    /\ lastOp.t > now

---------------------------------------------------------------------------
(* getSet of the cache (SpecCache) *)

\* C31: getSet is single-flight: at no time are two calls of the function
\* given to getSet pending for the same key.
C31_SingleFlight ==
    \A k \in CacheKeys :
        Cardinality({c \in CacheCallers :
                        cacheObj.caller[c].phase = "pending"
                        /\ cacheObj.caller[c].key = k}) <= 1

---------------------------------------------------------------------------
(* The lookahead policy of convertStateToCaspar (SpecProjector) *)

\* The layers of the projected state: (channelNo, layerNo, layer)
CasparFlat(caspar) ==
    UNION {{<<caspar[c].val.channelNo, caspar[c].val.layers[l].key,
              caspar[c].val.layers[l].val>> : l \in DOMAIN caspar[c].val.layers} :
              c \in DOMAIN caspar}

\* The layers of din in another order
CasparReordered(layers) ==
    {[i \in DOMAIN layers |-> layers[p[i]]] :
        p \in {q \in [DOMAIN layers -> DOMAIN layers] :
                  \A i, j \in DOMAIN layers : i # j => q[i] # q[j]}}

LookaheadPolicyHolds ==
    LET flat == CasparFlat(dout.state)
        names == {din.layers[i].key : i \in DOMAIN din.layers}
        m == Lookup(din.mappings, "L1")
        at == {x \in flat : x[1] = CasparChannelNo(m.channel) /\ x[2] = m.layer}
        next == [layerNo |-> m.layer, content |-> "MEDIA", media |-> Some("next"),
                 auto |-> FALSE]
    IN  /\ ("L1" \in names /\ "L1_lookahead" \in names) =>
              \E x \in at : /\ x[3].content = "MEDIA" /\ x[3].media = Some("amb")
                            /\ x[3].nextUp = Some(next)
        /\ ("L1" \in names /\ "L1_lookahead" \notin names) =>
              \E x \in at : /\ x[3].content = "MEDIA" /\ x[3].media = Some("amb")
                            /\ x[3].nextUp = None
        /\ ("L1" \notin names /\ "L1_lookahead" \in names) =>
              \E x \in at : /\ x[3].content = "NOTHING" /\ ~x[3].playing
                            /\ x[3].nextUp = Some(next)
        /\ \A l \in CasparReordered(din.layers) :
              CasparFlat(convertStateToCaspar(l, din.mappings)) = flat

\* C32: a lookahead layer fills nextUp of the foreground layer mapped to the
\* same channel and layer and never replaces its content; without a
\* foreground layer an empty layer (content NOTHING, not playing) that
\* carries nextUp is made; the projected state does not depend on the order
\* in which the layers are iterated.
C32_LookaheadPolicy ==
    (din.kind = "caspar" /\ dout.done) => LookaheadPolicyHolds

\* The same for mappings that name a channel (channel >= 1).
LookaheadPolicy_numberedChannel ==
    (din.kind = "caspar" /\ dout.done /\ Lookup(din.mappings, "L1").channel >= 1) =>
        LookaheadPolicyHolds
LookaheadPolicy_numberedChannel_Witness ==
    /\ din.kind = "caspar" /\ dout.done /\ Lookup(din.mappings, "L1").channel = 2
    /\ Len(din.layers) = 3 /\ din.layers[1].key = "L1_lookahead"

---------------------------------------------------------------------------
(* The time sync of makeReady (SpecSync) *)

---------------------------------------------------------------------------
(* makeReady of the HTTP device (SpecMakeReady) *)

\* The step is the facade operation op.
IsOp(op) == lastOp'.op = op /\ nOps' = nOps + 1

\* The commands of the calls of the command receiver that makeReady awaits
MakeReadyAwaited ==
    {r \in BagToSet(sender.reqs) : r.src = "makeReady" /\ r.holds}

\* What makeReady does to the State Store and the queue, and what the next
\* handleState does after a reset.
MakeReadyResetStep ==
    /\ IsOp("makeReady") =>
          IF sender'.mrOk /\ sender.makeReadyDoesReset
          THEN states' = {} /\ queue' = <<>>
          ELSE UNCHANGED <<states, queue>>
    /\ (IsOp("handleState") /\ states = {} /\ queue = <<>>) =>
          \E e \in states' :
             /\ states' = {e}
             /\ Len(queue') = Len(e.state.layers)
             /\ \A i \in DOMAIN queue' :
                   /\ queue'[i].time = e.time
                   /\ queue'[i].cmd.commandName = "added"
                   /\ Has(e.state.layers, queue'[i].cmd.layer)
                   /\ queue'[i].cmd.content = Lookup(e.state.layers, queue'[i].cmd.layer).content
             /\ \A l \in Keys(e.state.layers) :
                   \E i \in DOMAIN queue' : queue'[i].cmd.layer = l

\* The commands makeReady has given to the command receiver
MakeReadyGiven ==
    /\ sender.mr = 0 =>
          sender.mrSent = (IF sender.mrOk THEN sender.makeReadyCommands ELSE <<>>)
    /\ sender.mr > 0 =>
          /\ sender.mrOk
          /\ sender.mrSent = SubSeq(sender.makeReadyCommands, 1, sender.mr)
          /\ \E r \in MakeReadyAwaited :
                MakeReadyAwaited = {r} /\ r.index = sender.mr /\ sender.reqs[r] = 1
    /\ sender.mr = 0 => MakeReadyAwaited = {}

---------------------------------------------------------------------------
(* The requests of the HTTP device (SpecSender) *)

\* The number of requests in flight for the queueId q
InFlight(q) ==
    LET R == {r \in BagToSet(sender.reqs) : r.phase = "request" /\ r.cmd.queueId = Some(q)}
        Sum[S \in SUBSET R] ==
            IF S = {} THEN 0
            ELSE LET r == CHOOSE x \in S : TRUE IN sender.reqs[r] + Sum[S \ {r}]
    IN  Sum[R]

\* C38: for each queueId at most one request is in flight at any time,
\* retries included.
C38_OneInFlightPerQueueId ==
    \A q \in {"q1"} : InFlight(q) <= 1
C38_Case ==
    /\ InFlight("q1") = 2
    /\ \E r \in BagToSet(sender.reqs) : r.phase = "request" /\ r.requests > 1

\* What the queue serializes: for each queueId at most one call of the
\* command receiver is awaited by the queue.
QueueIdAwaitedOnce ==
    \A r1, r2 \in BagToSet(sender.reqs) :
        (r1.holds /\ r2.holds /\ IsSome(r1.cmd.queueId) /\ r1.cmd.queueId = r2.cmd.queueId)
            => (r1 = r2 /\ sender.reqs[r1] = 1)

\* The requests the step starts
StartedRequests ==
    {r \in BagToSet(sender'.reqs) :
        /\ r.phase = "request"
        /\ CopiesIn(r, sender'.reqs) > CopiesIn(r, sender.reqs)}

\* C39: every request started for a layer, first attempt or retry, carries
\* the payload of the 'added' or 'changed' command of the layer that fired
\* last, and none is started after a 'removed' command of the layer has
\* fired and before a newer 'added'; a 'removed' command sends no request.
C39_RequestsOfTheLayer ==
    [][/\ \A r \in StartedRequests :
             IsSome(r.layer) => sender'.fired[r.layer[1]] = Some(r.cmd)
       /\ (\E l \in DOMAIN sender.fired : IsSome(sender.fired[l]) /\ ~IsSome(sender'.fired[l]))
             => StartedRequests = {}]_vars
\* A retry has been sent for the layer; a retry was dropped after the
\* command of the layer was removed.
C39_Witness ==
    /\ \E r \in BagToSet(sender.reqs) : r.phase = "request" /\ r.requests = 2
                                        /\ r.layer = Some("L1")
    /\ sender.fired["L1"] = Some(cA)
    /\ now = 3000

---------------------------------------------------------------------------
(* handleState of the Quantel device for a revised timeline (Spec) *)

\* The step is handleState of the Quantel device for a time later than now,
\* and the operation before it, with no callback started since, was
\* handleState for the same time.
RevisedHandleState ==
    /\ dev = "quantel"
    /\ lastOp.op = "handleState"
    /\ IsOp("handleState")
    /\ lastOp'.t = lastOp.t
    /\ lastOp.t > now

\* The queue entries the superseded call added: the last lastOp.added of the queue
SupersededEntries == {i \in DOMAIN queue : i > Len(queue) - lastOp.added}

\* C36: when handleState for a time t > now is called again with a revised
\* snapshot for the same t before any queued command has fired, no command of
\* the superseded call is still queued: every queued command the first call
\* added has been removed, its prepare-ahead commands included.
C36_SupersededRemoved ==
    [][RevisedHandleState =>
          /\ \A i \in SupersededEntries : queue[i].time >= lastOp.t
          /\ Len(queue') = Len(queue) - lastOp.added + lastOp'.added]_vars

\* What the second call removes: the commands of the first call at the time t.
RevisedRemovesAtT ==
    [][RevisedHandleState =>
          lastOp'.removed = Cardinality({i \in DOMAIN queue : queue[i].time >= lastOp.t})]_vars

---------------------------------------------------------------------------
(* The Quantel diff reaches the new state (SpecDiff) *)

\* The commands of the diff for the port
DiffCommandsOf(portId, types) ==
    {i \in DOMAIN dout.commands :
        dout.commands[i].portId = portId /\ dout.commands[i].type \in types}

\* C37: whenever the diff has SETUP_PORT for a port whose new state has a
\* clip, a port whose channels changed while its clip stayed equal included,
\* it also has LOAD_FRAGMENTS and PLAY or PAUSE for that port.
C37_SetupComesWithLoad ==
    (din.kind = "quantel" /\ dout.done) =>
        \A i \in DOMAIN dout.commands :
            (/\ dout.commands[i].type = "setupPort"
             /\ Has(din.new.port, dout.commands[i].portId)
             /\ IsSome(Lookup(din.new.port, dout.commands[i].portId).clip)) =>
                /\ DiffCommandsOf(dout.commands[i].portId, {"loadClipFragments"}) # {}
                /\ DiffCommandsOf(dout.commands[i].portId, {"playClip", "pauseClip"}) # {}

\* The same for the ports that are new or whose clip changed.
SetupComesWithLoad_clipChanged ==
    (din.kind = "quantel" /\ dout.done) =>
        \A i \in DOMAIN dout.commands :
            (/\ dout.commands[i].type = "setupPort"
             /\ Has(din.new.port, dout.commands[i].portId)
             /\ IsSome(Lookup(din.new.port, dout.commands[i].portId).clip)
             /\ \/ ~Has(din.old.port, dout.commands[i].portId)
                \/ Lookup(din.old.port, dout.commands[i].portId).clip
                      # Lookup(din.new.port, dout.commands[i].portId).clip) =>
                /\ DiffCommandsOf(dout.commands[i].portId, {"loadClipFragments"}) # {}
                /\ DiffCommandsOf(dout.commands[i].portId, {"playClip", "pauseClip"}) # {}

---------------------------------------------------------------------------
(* The scheduled-token queue of the CasparCG device (SpecDevices) *)

\* handleState of the snapshot with scheduling, for a time later than now:
\* what _clearScheduledFutureCommands leaves of _queue and of the commands.
CasparClearedFor(layers, t) ==
    Caspar_clearScheduledFutureCommands(
        ccg._queue, t,
        CasparDiff(CasparOldState(states, Max(now, t)).layers, layers))

ScheduledHandleState(layers, t) ==
    /\ CasparhandleState([time |-> t, layers |-> layers])
    /\ ccg.useScheduling
    /\ t > now

\* The tokens handleState gives to the commands it schedules
CasparNewTokens(layers, t) ==
    {CasparToken(t, i - 1) : i \in DOMAIN CasparClearedFor(layers, t).commands}

\* A command already scheduled for the time is not sent again, and every
\* entry left with time >= t is a command of the new diff.
ScheduledKeptAndReplaced(layers, t) ==
    LET diff == CasparDiff(CasparOldState(states, Max(now, t)).layers, layers)
    IN  /\ \A q \in ccg._queue :
              (q.time = t /\ ~(q.time < now) /\ \E i \in DOMAIN diff : diff[i] = q.command) =>
                 \A c \in ccg'.sent \ ccg.sent :
                    c.name = "ScheduleSetCommand" => c.command # q.command
        /\ \A q \in ccg'._queue :
              q.time >= t => \E i \in DOMAIN diff : diff[i] = q.command

\* C40: a command handleState schedules never has the token of an entry that
\* is still in the scheduled-token queue; a command already scheduled for
\* the same time with equal name, channel, layer and payload is not sent
\* again; after handleState for time t every entry left with time >= t
\* belongs to the new diff.
C40_ScheduledTokens ==
    [][\A layers \in CasparSnapshots, t \in CasparTimes :
          ScheduledHandleState(layers, t) =>
             /\ \A q \in CasparClearedFor(layers, t).queue :
                   q.token \notin CasparNewTokens(layers, t)
             /\ ScheduledKeptAndReplaced(layers, t)]_vars

\* The second and third part alone.
ScheduledKeptNotResent ==
    [][\A layers \in CasparSnapshots, t \in CasparTimes :
          ScheduledHandleState(layers, t) => ScheduledKeptAndReplaced(layers, t)]_vars

====
